---- MODULE Spec2Model ----
(***************************************************************************)
(* helix-lsp (src/helix-lsp/src/lib.rs): the position translation layer   *)
(* (util::lsp_pos_to_pos, util::pos_to_lsp_pos), the edit translation     *)
(* (util::generate_transaction_from_edits) and the language server        *)
(* Registry.                                                               *)
(*                                                                         *)
(* A document (Rope) is a sequence of chars.  Char indices, byte offsets   *)
(* and UTF-16 code unit offsets are 0-based as in the source; TLA+         *)
(* sequences are 1-based, so the char with index i is doc[i + 1].          *)
(***************************************************************************)
EXTENDS Integers, Sequences, FiniteSets, TLC

\* ------------------------------------------------------------------------
\* Bounds
\* ------------------------------------------------------------------------
\* longest document of the position specification, in chars
MaxLen == 4
\* width of the scaled machine word: u32 and usize are WordBits wide
WordBits == 5
\* longest list of edits
MaxEdits == 3
\* most calls made on one Registry
MaxCalls == 5
\* most calls the transports of the clients send to the editor
MaxSent == 3
\* most calls made on the Registry while its merged stream is followed
MaxStarts == 3
\* most calls made on one LspProgressMap
MaxProgressCalls == 4
\* most calls of get made while the capabilities of the clients are followed
MaxCells == 2
\* longest document a snippet is expanded in, in chars
MaxSnippetDoc == 3
\* longest snippet, in elements
MaxSnippet == 2

\* ------------------------------------------------------------------------
\* Text
\* ------------------------------------------------------------------------
\* "a": one byte, one UTF-16 unit.  "LF", "CR": the line terminator chars.
\* "e2": a two byte char of one UTF-16 unit (U+00E9).
\* "t4": a four byte char of two UTF-16 units, a surrogate pair (U+1F384).
Chars == {"a", "LF", "CR", "e2", "t4"}

\* Option<T>: None, Some(x)
None == <<>>
Some(x) == <<x>>
unwrap(o) == o[1]

Encodings == {"Utf8", "Utf16", "Utf32"}

U32_MAX == 2^WordBits - 1
USIZE_MAX == 2^WordBits - 1

len_utf8(c) == CASE c = "e2" -> 2 [] c = "t4" -> 4 [] OTHER -> 1
len_utf16(c) == IF c = "t4" THEN 2 ELSE 1

Min(a, b) == IF a <= b THEN a ELSE b

RECURSIVE SeqsUpTo(_, _)
SeqsUpTo(S, n) ==
    IF n = 0 THEN {<<>>}
    ELSE LET shorter == SeqsUpTo(S, n - 1)
         IN  shorter \cup {Append(s, c) : s \in {t \in shorter : Len(t) = n - 1}, c \in S}

Docs == SeqsUpTo(Chars, MaxLen)

\* ------------------------------------------------------------------------
\* Rope queries (ropey, built as helix builds it: the line breaks are LF
\* and CRLF; a CR that no LF follows breaks no line)
\* ------------------------------------------------------------------------
len_chars(doc) == Len(doc)

RECURSIVE char_to_byte(_, _)
char_to_byte(doc, pos) ==
    IF pos = 0 THEN 0 ELSE char_to_byte(doc, pos - 1) + len_utf8(doc[pos])

RECURSIVE char_to_utf16_cu(_, _)
char_to_utf16_cu(doc, pos) ==
    IF pos = 0 THEN 0 ELSE char_to_utf16_cu(doc, pos - 1) + len_utf16(doc[pos])

len_bytes(doc) == char_to_byte(doc, Len(doc))
len_utf16_cu(doc) == char_to_utf16_cu(doc, Len(doc))

\* the number of line breaks among the first pos chars
char_to_line(doc, pos) == Cardinality({i \in 1..pos : doc[i] = "LF"})

len_lines(doc) == char_to_line(doc, Len(doc)) + 1

\* the char index at which the n-th line that starts at or after char index
\* p starts, the line at p counted as line 0
RECURSIVE line_start_from(_, _, _)
line_start_from(doc, n, p) ==
    IF n = 0 \/ p >= Len(doc) THEN p
    ELSE line_start_from(doc, IF doc[p + 1] = "LF" THEN n - 1 ELSE n, p + 1)

\* the char index at which line line_idx starts; line_idx = len_lines is
\* allowed and gives len_chars
line_to_char(doc, line_idx) == line_start_from(doc, line_idx, 0)

line_to_byte(doc, line_idx) == char_to_byte(doc, line_to_char(doc, line_idx))

\* Ok(the index of the char the byte belongs to), Err past the end
try_byte_to_char(doc, byte_idx) ==
    IF byte_idx > len_bytes(doc) THEN None
    ELSE Some(Cardinality({c \in 1..Len(doc) : char_to_byte(doc, c) <= byte_idx}))

\* Ok(the index of the char the code unit belongs to), Err past the end
try_utf16_cu_to_char(doc, cu_idx) ==
    IF cu_idx > len_utf16_cu(doc) THEN None
    ELSE Some(Cardinality({c \in 1..Len(doc) : char_to_utf16_cu(doc, c) <= cu_idx}))

\* ------------------------------------------------------------------------
\* helix_core::line_ending
\* ------------------------------------------------------------------------
\* the length in chars of the terminator of line line_idx (0 when the line
\* has none: the last line)
line_ending_chars(doc, line_idx) ==
    LET s == line_to_char(doc, line_idx)
        e == line_to_char(doc, line_idx + 1)
    IN  IF e - s >= 2 /\ doc[e - 1] = "CR" /\ doc[e] = "LF" THEN 2
        ELSE IF e - s >= 1 /\ doc[e] = "LF" THEN 1
        ELSE 0

line_end_char_index(doc, line_idx) ==
    line_to_char(doc, line_idx + 1) - line_ending_chars(doc, line_idx)

\* the terminator chars are one byte each
line_end_byte_index(doc, line_idx) ==
    line_to_byte(doc, line_idx + 1) - line_ending_chars(doc, line_idx)

\* ------------------------------------------------------------------------
\* util::lsp_pos_to_pos
\* ------------------------------------------------------------------------
checked_add(a, b) == IF a + b > USIZE_MAX THEN None ELSE Some(a + b)

unwrap_or(o, d) == IF o = None THEN d ELSE unwrap(o)

\* the range line.start..line.end of the line in the units of the encoding
line_start_unit(doc, pos_line, enc) ==
    CASE enc = "Utf8"  -> line_to_byte(doc, pos_line)
      [] enc = "Utf16" -> char_to_utf16_cu(doc, line_to_char(doc, pos_line))
      [] enc = "Utf32" -> line_to_char(doc, pos_line)

line_end_unit(doc, pos_line, enc) ==
    CASE enc = "Utf8"  -> line_end_byte_index(doc, pos_line)
      [] enc = "Utf16" -> char_to_utf16_cu(doc, line_end_char_index(doc, pos_line))
      [] enc = "Utf32" -> line_end_char_index(doc, pos_line)

\* capped_offset without the cap: .min(line.end) left out
capped_offset_uncapped(doc, pos, enc) ==
    LET start == line_start_unit(doc, pos.line, enc)
        end == line_end_unit(doc, pos.line, enc)
    IN  unwrap_or(checked_add(start, pos.character), end)

\* the offset capped to the end of the line
capped_offset(doc, pos, enc) ==
    LET start == line_start_unit(doc, pos.line, enc)
        end == line_end_unit(doc, pos.line, enc)
    IN  Min(unwrap_or(checked_add(start, pos.character), end), end)

\* the conversion of the capped offset to a char index
offset_to_char(doc, p, enc) ==
    CASE enc = "Utf8"  -> try_byte_to_char(doc, p)
      [] enc = "Utf16" -> try_utf16_cu_to_char(doc, p)
      [] enc = "Utf32" -> Some(p)

\* lsp_pos_to_pos with the line check off by one: the last line is refused
lsp_pos_to_pos_last_line_refused(doc, pos, enc) ==
    IF pos.line >= len_lines(doc) - 1 THEN None
    ELSE offset_to_char(doc, capped_offset(doc, pos, enc), enc)

\* lsp_pos_to_pos with the line check off by one: line len_lines is accepted
lsp_pos_to_pos_line_past_end(doc, pos, enc) ==
    IF pos.line > len_lines(doc) THEN None
    ELSE offset_to_char(doc, capped_offset(doc, pos, enc), enc)

\* lsp_pos_to_pos that refuses an offset inside a char of several units
lsp_pos_to_pos_boundary_only(doc, pos, enc) ==
    IF pos.line > len_lines(doc) - 1 THEN None
    ELSE LET p == capped_offset(doc, pos, enc)
             c == offset_to_char(doc, p, enc)
         IN  IF enc = "Utf8" /\ char_to_byte(doc, unwrap(c)) # p THEN None
             ELSE IF enc = "Utf16" /\ char_to_utf16_cu(doc, unwrap(c)) # p THEN None
             ELSE c

lsp_pos_to_pos(doc, pos, enc) ==
    IF pos.line > len_lines(doc) - 1 THEN None
    ELSE offset_to_char(doc, capped_offset(doc, pos, enc), enc)

\* ------------------------------------------------------------------------
\* util::pos_to_lsp_pos
\* ------------------------------------------------------------------------
Position(l, c) == [line |-> l, character |-> c]

\* pos_to_lsp_pos that counts chars where UTF-16 code units are asked for
pos_to_lsp_pos_utf16_as_chars(doc, pos, enc) ==
    LET line == char_to_line(doc, pos)
    IN  CASE enc = "Utf8" ->
               Position(line, char_to_byte(doc, pos) - line_to_byte(doc, line))
          [] OTHER ->
               Position(line, pos - line_to_char(doc, line))

pos_to_lsp_pos(doc, pos, enc) ==
    LET line == char_to_line(doc, pos)
    IN  CASE enc = "Utf8" ->
               Position(line, char_to_byte(doc, pos) - line_to_byte(doc, line))
          [] enc = "Utf16" ->
               Position(line, char_to_utf16_cu(doc, pos)
                              - char_to_utf16_cu(doc, line_to_char(doc, line)))
          [] enc = "Utf32" ->
               Position(line, pos - line_to_char(doc, line))

\* ------------------------------------------------------------------------
\* helix_core::Transaction and ChangeSet
\* ------------------------------------------------------------------------
\* usize arithmetic of a release build wraps; a debug build panics instead
Wrap(n) == n % (USIZE_MAX + 1)

Builds == {"debug", "release"}

Retain(n) == [kind |-> "Retain", n |-> n, s |-> <<>>]
Delete(n) == [kind |-> "Delete", n |-> n, s |-> <<>>]
Insert(s) == [kind |-> "Insert", n |-> 0, s |-> s]

\* the outcome of a call that panicked
Panic == [kind |-> "Panic", changes |-> <<>>, len |-> 0]

\* ChangeSet::with_capacity
ChangeSet_new == [kind |-> "ChangeSet", changes |-> <<>>, len |-> 0]

ChangeSet_retain(cs, n) ==
    IF n = 0 THEN cs
    ELSE LET k == Len(cs.changes)
         IN  [cs EXCEPT
                !.len = Wrap(@ + n),
                !.changes = IF k > 0 /\ @[k].kind = "Retain"
                            THEN [@ EXCEPT ![k] = Retain(Wrap(@.n + n))]
                            ELSE Append(@, Retain(n))]

ChangeSet_delete(cs, n) ==
    IF n = 0 THEN cs
    ELSE LET k == Len(cs.changes)
         IN  [cs EXCEPT
                !.len = Wrap(@ + n),
                !.changes = IF k > 0 /\ @[k].kind = "Delete"
                            THEN [@ EXCEPT ![k] = Delete(Wrap(@.n + n))]
                            ELSE Append(@, Delete(n))]

\* an insertion goes before a deletion made at the same place
ChangeSet_insert(cs, fragment) ==
    IF fragment = <<>> THEN cs
    ELSE LET c == cs.changes
             k == Len(c)
         IN  [cs EXCEPT !.changes =
                IF k > 0 /\ c[k].kind = "Insert"
                THEN [c EXCEPT ![k] = Insert(c[k].s \o fragment)]
                ELSE IF k > 1 /\ c[k].kind = "Delete" /\ c[k - 1].kind = "Insert"
                THEN [c EXCEPT ![k - 1] = Insert(c[k - 1].s \o fragment)]
                ELSE IF k > 0 /\ c[k].kind = "Delete"
                THEN Append([c EXCEPT ![k] = Insert(fragment)], c[k])
                ELSE Append(c, Insert(fragment))]

\* a Change: (from, to, Option<Tendril>)
Change(from, to, tendril) == [from |-> from, to |-> to, tendril |-> tendril]

\* the loop of Transaction::change from its i-th change on; last is the end
\* of the change before.  The ranges have to be ordered and disjoint: a debug
\* build asserts it, a release build computes from - last in wrapping usize.
RECURSIVE Transaction_change_from(_, _, _, _, _, _)
Transaction_change_from(d, changes, i, cs, last, build) ==
    IF i > Len(changes)
    THEN IF build = "debug" /\ last > Len(d) THEN Panic
         ELSE ChangeSet_retain(cs, Wrap(Len(d) - last))
    ELSE LET c == changes[i]
         IN  IF build = "debug" /\ (last > c.from \/ c.from > c.to) THEN Panic
             ELSE LET retained == ChangeSet_retain(cs, Wrap(c.from - last))
                      inserted == IF c.tendril = None THEN retained
                                  ELSE ChangeSet_insert(retained, unwrap(c.tendril))
                      deleted == ChangeSet_delete(inserted, Wrap(c.to - c.from))
                  IN  Transaction_change_from(d, changes, i + 1, deleted, c.to, build)

Transaction_change(d, changes, build) ==
    Transaction_change_from(d, changes, 1, ChangeSet_new, 0, build)

SubSeqFrom(t, from) == SubSeq(t, from + 1, Len(t))

\* the loop of ChangeSet::apply from its i-th operation on, at char pos of
\* text; Rope::remove and Rope::insert panic out of bounds
RECURSIVE ChangeSet_apply_from(_, _, _, _)
ChangeSet_apply_from(changes, i, text, pos) ==
    IF i > Len(changes) THEN [kind |-> "Applied", ok |-> TRUE, text |-> text]
    ELSE LET c == changes[i]
         IN  CASE c.kind = "Retain" ->
                    ChangeSet_apply_from(changes, i + 1, text, Wrap(pos + c.n))
               [] c.kind = "Delete" ->
                    IF pos + c.n > Len(text)
                    THEN [kind |-> "Panic", ok |-> FALSE, text |-> text]
                    ELSE ChangeSet_apply_from(changes, i + 1,
                             SubSeq(text, 1, pos) \o SubSeqFrom(text, pos + c.n), pos)
               [] c.kind = "Insert" ->
                    IF pos > Len(text)
                    THEN [kind |-> "Panic", ok |-> FALSE, text |-> text]
                    ELSE ChangeSet_apply_from(changes, i + 1,
                             SubSeq(text, 1, pos) \o c.s \o SubSeqFrom(text, pos),
                             pos + Len(c.s))

\* Transaction::apply: false, and the text untouched, when the change set
\* was not made for a text of this length
Transaction_apply(cs, text) ==
    IF Len(text) # cs.len THEN [kind |-> "Applied", ok |-> FALSE, text |-> text]
    ELSE ChangeSet_apply_from(cs.changes, 1, text, 0)

\* ------------------------------------------------------------------------
\* helix_core::diff::compare_ropes
\* ------------------------------------------------------------------------
RECURSIVE CommonPrefix(_, _)
CommonPrefix(a, b) ==
    IF a = <<>> \/ b = <<>> \/ Head(a) # Head(b) THEN 0
    ELSE 1 + CommonPrefix(Tail(a), Tail(b))

RECURSIVE Reverse(_)
Reverse(t) == IF t = <<>> THEN <<>> ELSE Append(Reverse(Tail(t)), Head(t))

\* the transaction that keeps the common prefix and the common suffix of
\* the two texts and replaces what lies between
compare_ropes(old, new) ==
    LET p == CommonPrefix(old, new)
        q == CommonPrefix(Reverse(SubSeqFrom(old, p)), Reverse(SubSeqFrom(new, p)))
        kept == ChangeSet_retain(ChangeSet_new, p)
        inserted == ChangeSet_insert(kept, SubSeq(new, p + 1, Len(new) - q))
        deleted == ChangeSet_delete(inserted, Len(old) - p - q)
    IN  ChangeSet_retain(deleted, q)

\* ------------------------------------------------------------------------
\* util::generate_transaction_from_edits
\* ------------------------------------------------------------------------
Range(start, end) == [start |-> start, end |-> end]
TextEdit(range, new_text) == [range |-> range, new_text |-> new_text]

\* Ord of lsp::Position: by line, then by character
PositionLess(a, b) == a.line < b.line \/ (a.line = b.line /\ a.character < b.character)
PositionLeq(a, b) == a = b \/ PositionLess(a, b)

\* list without its i-th element
RemoveAt(list, i) == SubSeq(list, 1, i - 1) \o SubSeq(list, i + 1, Len(list))

\* no sort: the edits stay in the order of the list
sort_unstable_by_key_unsorted(list) == {list}

\* every list sort_unstable_by_key(|edit| edit.range.start) may leave: the
\* edits in an order of non-decreasing range start; which of several edits
\* of one start comes first is not specified
RECURSIVE sort_unstable_by_key(_)
sort_unstable_by_key(list) ==
    IF list = <<>> THEN {<<>>}
    ELSE UNION {{<<list[i]>> \o rest : rest \in sort_unstable_by_key(RemoveAt(list, i))} :
                 i \in {j \in 1..Len(list) :
                          \A k \in 1..Len(list) :
                              PositionLeq(list[j].range.start, list[k].range.start)}}

\* the closure handed to Transaction::change
edit_to_change(d, edit, enc) ==
    LET replacement == IF edit.new_text # <<>> THEN Some(edit.new_text) ELSE None
        start == lsp_pos_to_pos(d, edit.range.start, enc)
        end == lsp_pos_to_pos(d, edit.range.end, enc)
    IN  IF start = None THEN Change(0, 0, None)
        ELSE IF end = None THEN Change(0, 0, None)
        ELSE Change(unwrap(start), unwrap(end), replacement)

\* lsp_pos_to_pos(start)? .. lsp_pos_to_pos(end)? == 0..len_chars
is_document_replacement(d, edit, enc) ==
    LET start == lsp_pos_to_pos(d, edit.range.start, enc)
        end == lsp_pos_to_pos(d, edit.range.end, enc)
    IN  start # None /\ end # None /\ unwrap(start) = 0 /\ unwrap(end) = len_chars(d)

\* the diff whenever the first edit covers the document, whatever follows it
generate_transaction_from_sorted_first_covers(d, sorted, enc) ==
    IF Len(sorted) >= 1 /\ is_document_replacement(d, sorted[1], enc)
    THEN {[path |-> "diff", txn |-> compare_ropes(d, sorted[1].new_text)]}
    ELSE LET changes == [i \in 1..Len(sorted) |-> edit_to_change(d, sorted[i], enc)]
         IN  {[path |-> "change", txn |-> Transaction_change(d, changes, build)] :
                build \in Builds}

\* the body after the sort; sorted is the list the sort left.  The
\* transactions a debug and a release build return.
generate_transaction_from_sorted(d, sorted, enc) ==
    IF Len(sorted) = 1 /\ is_document_replacement(d, sorted[1], enc)
    THEN {[path |-> "diff", txn |-> compare_ropes(d, sorted[1].new_text)]}
    ELSE LET changes == [i \in 1..Len(sorted) |-> edit_to_change(d, sorted[i], enc)]
         IN  {[path |-> "change", txn |-> Transaction_change(d, changes, build)] :
                build \in Builds}

\* generate_transaction_from_edits: the sort, then the body
generate_transaction_from_edits(d, list, enc) ==
    UNION {{[sorted |-> s, path |-> r.path, txn |-> r.txn] :
                r \in generate_transaction_from_sorted(d, s, enc)} :
            s \in sort_unstable_by_key(list)}

\* ------------------------------------------------------------------------
\* helix_core::Range, Selection and ChangeSet::map_pos
\* ------------------------------------------------------------------------
\* Range::new(anchor, head)
Range_new(anchor, head) == [anchor |-> anchor, head |-> head]

Range_from(range) == Min(range.anchor, range.head)
Range_to(range) == IF range.anchor >= range.head THEN range.anchor ELSE range.head

\* graphemes::prev_grapheme_boundary: CR LF is one grapheme, every other
\* char of Chars is one of its own
prev_grapheme_boundary(text, pos) ==
    IF pos = 0 THEN 0
    ELSE IF pos >= 2 /\ text[pos - 1] = "CR" /\ text[pos] = "LF" THEN pos - 2
    ELSE pos - 1

\* Range::cursor: the char the block cursor is on
Range_cursor(range, text) ==
    IF range.head > range.anchor THEN prev_grapheme_boundary(text, range.head)
    ELSE range.head

\* Range::overlaps
Range_overlaps(a, b) ==
    \/ Range_from(a) = Range_from(b)
    \/ (Range_to(a) > Range_from(b) /\ Range_to(b) > Range_from(a))

\* Range::merge: the direction is that of the first range
Range_merge(a, b) ==
    IF a.anchor > a.head /\ b.anchor > b.head
    THEN Range_new(IF Range_to(a) >= Range_to(b) THEN Range_to(a) ELSE Range_to(b),
                   Min(Range_from(a), Range_from(b)))
    ELSE Range_new(Min(Range_from(a), Range_from(b)),
                   IF Range_to(a) >= Range_to(b) THEN Range_to(a) ELSE Range_to(b))

\* the loop of ChangeSet::map_pos from its i-th operation on: the place in
\* the new text of char pos of the old one; an insertion at pos leaves the
\* place before the inserted text (Assoc::Before) or after it (Assoc::After)
RECURSIVE map_pos_from(_, _, _, _, _, _)
map_pos_from(changes, i, pos, assoc, old_pos, new_pos) ==
    IF i > Len(changes) THEN new_pos
    ELSE LET c == changes[i]
         IN  CASE c.kind = "Retain" ->
                    IF old_pos + c.n > pos THEN new_pos + (pos - old_pos)
                    ELSE map_pos_from(changes, i + 1, pos, assoc, old_pos + c.n,
                                      new_pos + c.n)
               [] c.kind = "Delete" ->
                    IF old_pos + c.n > pos THEN new_pos
                    ELSE map_pos_from(changes, i + 1, pos, assoc, old_pos + c.n, new_pos)
               [] c.kind = "Insert" ->
                    LET ins == Len(c.s)
                    IN  IF i < Len(changes) /\ changes[i + 1].kind = "Delete"
                        THEN \* a subsequent delete means a replace
                             LET old_end == old_pos + changes[i + 1].n
                             IN  IF old_end > pos
                                 THEN IF pos = old_pos \/ assoc = "Before" THEN new_pos
                                      ELSE new_pos + ins
                                 ELSE map_pos_from(changes, i + 2, pos, assoc, old_end,
                                                   new_pos + ins)
                        ELSE IF old_pos = pos
                        THEN IF assoc = "Before" THEN new_pos ELSE new_pos + ins
                        ELSE map_pos_from(changes, i + 1, pos, assoc, old_pos,
                                          new_pos + ins)

map_pos(changes, pos, assoc) == map_pos_from(changes, 1, pos, assoc, 0, 0)

\* Range::map
Range_map(range, changes) ==
    IF range.anchor = range.head
    THEN Range_new(map_pos(changes, range.anchor, "After"),
                   map_pos(changes, range.head, "After"))
    ELSE IF range.anchor < range.head
    THEN Range_new(map_pos(changes, range.anchor, "After"),
                   map_pos(changes, range.head, "Before"))
    ELSE Range_new(map_pos(changes, range.anchor, "Before"),
                   map_pos(changes, range.head, "After"))

\* the sort of Selection::normalize: the ranges by Range::from
RECURSIVE sort_by_from(_)
sort_by_from(ranges) ==
    IF ranges = <<>> THEN <<>>
    ELSE LET rest == sort_by_from(Tail(ranges))
             r == Head(ranges)
             before_r == SelectSeq(rest, LAMBDA x : Range_from(x) < Range_from(r))
             after_r == SelectSeq(rest, LAMBDA x : Range_from(x) >= Range_from(r))
         IN  before_r \o <<r>> \o after_r

\* the loop of Selection::normalize that merges the ranges that overlap
RECURSIVE merge_overlapping(_, _)
merge_overlapping(merged, ranges) ==
    IF ranges = <<>> THEN merged
    ELSE IF merged # <<>> /\ Range_overlaps(merged[Len(merged)], Head(ranges))
    THEN merge_overlapping(
             [merged EXCEPT ![Len(merged)] = Range_merge(@, Head(ranges))], Tail(ranges))
    ELSE merge_overlapping(Append(merged, Head(ranges)), Tail(ranges))

\* Selection::normalize
normalize(ranges) == merge_overlapping(<<>>, sort_by_from(ranges))

\* Selection::map
Selection_map(ranges, changes) ==
    IF changes = <<>> THEN ranges
    ELSE normalize([i \in 1..Len(ranges) |-> Range_map(ranges[i], changes)])

\* ------------------------------------------------------------------------
\* util::generate_transaction_from_snippet
\* ------------------------------------------------------------------------
\* the elements of a snippet::Snippet: the char "a" and the newline "NL" of
\* its text, and the tab stop "$1"
SnippetElements == {"a", "NL", "$1"}

\* format!("{blank:width$}", blank = "")
RECURSIVE blanks(_)
blanks(width) == IF width = 0 THEN <<>> ELSE <<" ">> \o blanks(width - 1)

\* the loop of snippet::render from the i-th element on: text is the string
\* rendered so far, stops the ranges of the tab stop met so far
RECURSIVE render_from(_, _, _, _, _)
render_from(snippet, i, newline_with_offset, text, stops) ==
    IF i > Len(snippet)
    THEN [replacement |-> text, tabstops |-> IF stops = <<>> THEN <<>> ELSE <<stops>>]
    ELSE CASE snippet[i] = "NL" ->
                render_from(snippet, i + 1, newline_with_offset,
                            text \o newline_with_offset, stops)
           [] snippet[i] = "$1" ->
                render_from(snippet, i + 1, newline_with_offset, text,
                            Append(stops, <<Len(text), Len(text)>>))
           [] OTHER ->
                render_from(snippet, i + 1, newline_with_offset,
                            Append(text, snippet[i]), stops)

\* snippet::render: the replacement and, for every tab stop, its ranges
\* relative to the start of the replacement
render(snippet, newline_with_offset) == render_from(snippet, 1, newline_with_offset, <<>>, <<>>)

\* what the closure handed to change_by_selection makes of one range: the
\* change, and the offsets of the first tab stop from the end of the
\* replacement
snippet_change(d, range, start_offset, end_offset, snippet, line_ending) ==
    LET cursor == Range_cursor(range, d)
        replacement_start == Wrap(cursor + start_offset)
        replacement_end == Wrap(cursor + end_offset)
        newline_with_offset ==
            line_ending \o blanks(replacement_start
                                  - line_to_char(d, char_to_line(d, replacement_start)))
        rendered == render(snippet, newline_with_offset)
        replacement_len == Len(rendered.replacement)
        first == IF rendered.tabstops = <<>>
                 THEN <<<<replacement_len, replacement_len>>>>
                 ELSE rendered.tabstops[1]
    IN  [change |-> Change(replacement_start, replacement_end, Some(rendered.replacement)),
         offsets |-> [k \in 1..Len(first) |->
                         <<first[k][1] - replacement_len, first[k][2] - replacement_len>>]]

\* the ranges transform_iter makes of the mapped ranges from the i-th on,
\* each with the offsets of the range of the same index
RECURSIVE tabstop_ranges_from(_, _, _)
tabstop_ranges_from(mapped, offsets, i) ==
    IF i > Len(mapped) THEN <<>>
    ELSE [k \in 1..Len(offsets[i]) |->
             Range_new(Wrap(mapped[i].anchor + offsets[i][k][1]),
                       Wrap(mapped[i].anchor + offsets[i][k][2]))]
         \o tabstop_ranges_from(mapped, offsets, i + 1)

\* generate_transaction_from_snippet: the change set of the transaction and
\* its selection
generate_transaction_from_snippet(d, sel, so, eo, snip, line_ending, build) ==
    LET made == [i \in 1..Len(sel) |->
                    snippet_change(d, sel[i], so, eo, snip,
                                   line_ending)]
        cursor_tabstop_offsets == [i \in 1..Len(sel) |-> made[i].offsets]
        transaction == Transaction_change(d, [i \in 1..Len(sel) |-> made[i].change],
                                          build)
    IN  IF transaction.kind = "Panic" THEN [txn |-> Panic, selection |-> <<>>]
        ELSE [txn |-> transaction,
              selection |->
                  normalize(tabstop_ranges_from(
                      Selection_map(sel, transaction.changes),
                      cursor_tabstop_offsets, 1))]

\* ------------------------------------------------------------------------
\* State
\* ------------------------------------------------------------------------
VARIABLES
    doc,        \* the Rope the conversions are applied to
    encoding,   \* the OffsetEncoding of the client
    op,         \* the conversion applied last ("none" before the first)
    arg,        \* its argument: an lsp::Position or a char index
    ret,        \* its result
    back,       \* lsp_pos_to_pos of the position pos_to_lsp_pos returned
    edits,      \* the Vec<lsp::TextEdit> handed to generate_transaction_from_edits
    sorted,     \* the order sort_unstable_by_key left the edits in
    path,       \* the branch that made the transaction: "diff" or "change"
    txn,        \* the ChangeSet of the Transaction returned, or Panic
    applied,    \* the outcome of Transaction::apply on the document
    inner,      \* Registry::inner: scope -> Some((id, client)) or None
    counter,    \* Registry::counter
    incoming,   \* Registry::incoming: the clients whose stream was pushed
    shutdown,   \* the clients a force_shutdown task was spawned for
    forced,     \* the clients force_shutdown was invoked on
    issued,     \* every id fetch_add returned, in order, and whether
                \* start_client made a client with it; client n is the one
                \* made with issued[n]
    calls,      \* number of calls made on the Registry
    rop,        \* the Registry method called last ("none" before the first)
    rarg,       \* its argument
    rret,       \* its result
    before,     \* the Registry and the last call as they were before the call
    channel,    \* client -> the (id, Call) pairs its transport has sent on its
                \* unbounded channel and its stream has not given yet
    delivered,  \* the pairs Registry::incoming has given, in order
    sentCalls,  \* number of calls the transports have sent
    task,       \* client -> where the task start_client spawned for it is
    capabilities, \* client -> Client::capabilities: None while the cell is unset
    events,     \* client -> what its task has done, in order
    waiter,     \* client -> where a second caller of get_or_try_init on the
                \* cell of the client is
    got,        \* client -> what get_or_try_init returned to the task and to
                \* the second caller
    initializers, \* client -> the callers whose initializer sent an
                \* initialize request, in order
    pmap,       \* LspProgressMap.0: id -> None, or Some of token -> None or
                \* Some(status)
    plog,       \* the create, update and end_progress calls made, in order
    pret,       \* what the last of them returned
    pbefore,    \* pmap as it was before the last of them
    method,     \* the method of the message a server sent
    params,     \* its jsonrpc::Params
    parser,     \* the parse applied to them ("none" before it is)
    parsed,     \* its result
    selection,  \* the Selection handed to generate_transaction_from_snippet
    start_offset, \* its start_offset
    end_offset, \* its end_offset
    snippet,    \* its snippet
    with_selection \* the selection of the Transaction it returned

vars == <<doc, encoding, op, arg, ret, back, edits, sorted, path, txn, applied,
          inner, counter, incoming, shutdown, forced, issued, calls, rop, rarg, rret,
          before, channel, delivered, sentCalls,
          task, capabilities, events, waiter, got, initializers,
          pmap, plog, pret, pbefore,
          method, params, parser, parsed,
          selection, start_offset, end_offset, snippet, with_selection>>

posVars == <<arg, ret, back>>
editVars == <<edits, sorted, path, txn, applied>>
regVars == <<inner, counter, incoming, shutdown, forced, issued, calls, rop, rarg, rret,
             before>>
streamVars == <<channel, delivered, sentCalls>>
\* the variables the conversions, the edits and the Registry leave alone
handshakeVars == <<task, capabilities, events, waiter, got, initializers>>
progressVars == <<pmap, plog, pret, pbefore>>
parseVars == <<method, params, parser, parsed>>
snippetVars == <<selection, start_offset, end_offset, snippet, with_selection>>
auxVars == <<streamVars, handshakeVars, progressVars, parseVars, snippetVars>>

NoTxn == [kind |-> "None", changes |-> <<>>, len |-> 0]
NoOutcome == [kind |-> "None", ok |-> FALSE, text |-> <<>>]

EditsIdle ==
    /\ edits = <<>>
    /\ sorted = <<>>
    /\ path = "none"
    /\ txn = NoTxn
    /\ applied = NoOutcome

\* the language configurations of the editor: two languages with a language
\* server, one without
LanguageConfigurations ==
    {[scope |-> "source.rust", language_server |-> TRUE],
     [scope |-> "source.toml", language_server |-> TRUE],
     [scope |-> "text.plain", language_server |-> FALSE]}
Scopes == {cfg.scope : cfg \in LanguageConfigurations}

\* results of the Registry methods
Ok(x) == [kind |-> "Ok", value |-> x]
Err == [kind |-> "Err", value |-> None]
Unit == [kind |-> "Unit", value |-> None]
Found(x) == [kind |-> "Option", value |-> x]
NoCall == [kind |-> "None", value |-> None]
CfgArg(cfg) == [cfg |-> Some(cfg), id |-> None]
IdArg(id) == [cfg |-> None, id |-> Some(id)]
NoArg == [cfg |-> None, id |-> None]

\* every client a Registry of MaxCalls calls can start
ClientHandles == 1..MaxCalls

\* no transport has sent a call
StreamsIdle ==
    /\ channel = [client \in ClientHandles |-> <<>>]
    /\ delivered = <<>>
    /\ sentCalls = 0

\* the state of everything but the conversions, the edits and the Registry
\* no task of start_client has run
HandshakeIdle ==
    /\ task = [client \in ClientHandles |-> "spawned"]
    /\ capabilities = [client \in ClientHandles |-> None]
    /\ events = [client \in ClientHandles |-> <<>>]
    /\ waiter = [client \in ClientHandles |-> "idle"]
    /\ got = [client \in ClientHandles |-> [task |-> NoCall, waiter |-> NoCall]]
    /\ initializers = [client \in ClientHandles |-> <<>>]

\* the servers progress is kept for, and the tokens they use: the number 1
\* and the string "1"
ProgressIds == {0, 1}
ProgressTokens == {<<"Number", "1">>, <<"String", "1">>}

\* HashMap::new() of the tokens of one server
NoTokens == [token \in ProgressTokens |-> None]

\* LspProgressMap::new(), and no call made
ProgressNew ==
    /\ pmap = [id \in ProgressIds |-> None]
    /\ plog = <<>>
    /\ pret = None
    /\ pbefore = [id \in ProgressIds |-> None]

\* jsonrpc::Params: None, or a Map with the fields given (whatever else the
\* map holds, and with values of the types the fields have in lsp_types)
ParamsNone == [kind |-> "None", fields |-> {}]
ParamsMap(fields) == [kind |-> "Map", fields |-> fields]

\* results of MethodCall::parse and Notification::parse
NotParsed == [kind |-> "None", error |-> "", variant |-> "", params |-> None]
ParsedAs(variant, p) == [kind |-> "Ok", error |-> "", variant |-> variant, params |-> p]
ParseErr(e) == [kind |-> "Err", error |-> e, variant |-> "", params |-> None]

\* no message parsed
ParseIdle ==
    /\ method = ""
    /\ params = ParamsNone
    /\ parser = "none"
    /\ parsed = NotParsed

\* no snippet expanded
SnippetIdle ==
    /\ selection = <<>>
    /\ start_offset = 0
    /\ end_offset = 0
    /\ snippet = <<>>
    /\ with_selection = <<>>

AuxIdle == StreamsIdle /\ HandshakeIdle /\ ProgressNew /\ ParseIdle /\ SnippetIdle

\* what a call leaves in before
Snapshot ==
    [inner |-> inner, counter |-> counter, incoming |-> incoming,
     shutdown |-> shutdown, issued |-> Len(issued),
     rop |-> rop, rarg |-> rarg, rret |-> rret]

\* Registry::new(), and no call made
RegistryNew ==
    /\ inner = [s \in Scopes |-> None]
    /\ counter = 0
    /\ incoming = {}
    /\ shutdown = {}
    /\ forced = {}
    /\ issued = <<>>
    /\ calls = 0
    /\ rop = "none"
    /\ rarg = NoArg
    /\ rret = NoCall
    /\ before = [inner |-> [s \in Scopes |-> None], counter |-> 0, incoming |-> {},
                 shutdown |-> {}, issued |-> 0,
                 rop |-> "none", rarg |-> NoArg, rret |-> NoCall]

\* the documents of tests::converts_lsp_pos_to_pos that Docs leaves out:
\* "test\n\n\n\ncase"
TestCaseDoc == <<"a", "a", "a", "a", "LF", "LF", "LF", "LF", "a", "a", "a", "a">>

\* the lines and characters a server sends: every value near the document
\* and the largest u32
LineInputs == 0..(MaxLen + 1) \cup {U32_MAX}
CharacterInputs == 0..(4 * MaxLen + 1) \cup {U32_MAX}

InitPos ==
    /\ doc \in Docs \cup {TestCaseDoc}
    /\ encoding \in Encodings
    /\ op = "none"
    /\ arg = None
    /\ ret = None
    /\ back = None
    /\ EditsIdle
    /\ RegistryNew
    /\ AuxIdle

\* a call of lsp_pos_to_pos with a position a server sent
LspPosToPos ==
    /\ op = "none"
    /\ \E l \in LineInputs, c \in CharacterInputs :
        /\ op' = "lsp_pos_to_pos"
        /\ arg' = Position(l, c)
        /\ ret' = lsp_pos_to_pos(doc, Position(l, c), encoding)
    /\ UNCHANGED <<doc, encoding, back, editVars, regVars, auxVars>>

\* a call of pos_to_lsp_pos with a char index of the document
PosToLspPos ==
    /\ op = "none"
    /\ \E p \in 0..len_chars(doc) :
        /\ op' = "pos_to_lsp_pos"
        /\ arg' = p
        /\ ret' = pos_to_lsp_pos(doc, p, encoding)
    /\ UNCHANGED <<doc, encoding, back, editVars, regVars, auxVars>>

\* the position pos_to_lsp_pos returned is converted back
LspPosBack ==
    /\ op = "pos_to_lsp_pos"
    /\ op' = "round_trip"
    /\ back' = lsp_pos_to_pos(doc, ret, encoding)
    /\ UNCHANGED <<doc, encoding, arg, ret, editVars, regVars, auxVars>>

NextPos == LspPosToPos \/ PosToLspPos \/ LspPosBack

SpecPos == InitPos /\ [][NextPos]_vars

\* ------------------------------------------------------------------------
\* Edits: the calls of generate_transaction_from_edits
\* ------------------------------------------------------------------------
\* the documents that are edited: the empty one, one of a single line with
\* a char of several units, and one of two lines, the last line empty
EditDocs == {<<>>, <<"t4", "a">>, <<"a", "LF">>}

\* the positions a server sends for a document: those of its char indices,
\* the far end of the last line, and the start of the line after the last
EditPositions(d, enc) ==
    {pos_to_lsp_pos(d, p, enc) : p \in 0..Len(d)}
    \cup {Position(len_lines(d) - 1, U32_MAX)}
    \cup {Position(len_lines(d), 0)}

EditRanges(d, enc) ==
    {r \in [start : EditPositions(d, enc), end : EditPositions(d, enc)] :
        PositionLeq(r.start, r.end)}

\* the text the k-th edit (by range start) brings
NewText(k) == CASE k % 3 = 1 -> <<"a">> [] k % 3 = 2 -> <<"LF", "t4">> [] OTHER -> <<"t4">>

\* an edit of an empty range inserts its text; one of another range
\* replaces the range by its text or removes it
NewTexts(r, k) == IF r.start = r.end THEN {NewText(k)} ELSE {<<>>, NewText(k)}

\* the ranges of two edits of one list do not overlap (LSP: "text edits
\* ranges must never overlap")
Disjoint(e, f) ==
    \/ PositionLeq(e.range.end, f.range.start)
    \/ PositionLeq(f.range.end, e.range.start)

\* LSP: several edits may have one start position, "any number of inserts
\* followed by a single remove or replace edit"; the order in the list is
\* the order of their texts
WellFormed(list) ==
    \A i, j \in 1..Len(list) : i < j =>
        /\ Disjoint(list[i], list[j])
        /\ list[i].range.start = list[j].range.start
              => list[i].range.start = list[i].range.end

\* the orders a server sends a list of n edits in: start first, end first
\* (Omnisharp), and the first edit moved behind the others
SendOrders(n) ==
    {[i \in 1..n |-> i], [i \in 1..n |-> n + 1 - i], [i \in 1..n |-> (i % n) + 1]}

\* the document and the edits of tests::emoji_format_gh_4791
EmojiDoc == <<"a", "LF", "a", "t4", "t4", "a", "a", "LF", "a", "t4", "a", "a", "LF", "a">>
EmojiEdits ==
    <<TextEdit(Range(Position(0, 1), Position(1, 0)), <<"LF", "a", "a">>),
      TextEdit(Range(Position(1, 7), Position(2, 0)), <<"LF", "a", "a">>)>>

InitEdits ==
    /\ \/ /\ doc \in EditDocs
          /\ encoding \in Encodings
          /\ edits = <<>>
       \/ /\ doc = EmojiDoc
          /\ encoding = "Utf8"
          /\ edits = EmojiEdits
    /\ op = "none"
    /\ arg = None
    /\ ret = None
    /\ back = None
    /\ sorted = <<>>
    /\ path = "none"
    /\ txn = NoTxn
    /\ applied = NoOutcome
    /\ RegistryNew
    /\ AuxIdle

\* the server computes one more edit of its answer; it computes them in the
\* order of their range starts
ComputeEdit ==
    /\ op = "none"
    /\ doc \in EditDocs
    /\ Len(edits) < MaxEdits
    /\ \E r \in EditRanges(doc, encoding) :
        /\ edits # <<>> => PositionLeq(edits[Len(edits)].range.start, r.start)
        /\ \E t \in NewTexts(r, Len(edits) + 1) :
            /\ edits' = Append(edits, TextEdit(r, t))
            /\ WellFormed(edits')
    /\ UNCHANGED <<doc, encoding, op, posVars, sorted, path, txn, applied, regVars, auxVars>>

\* generate_transaction_from_edits(doc, edits, offset_encoding), edits in
\* the order the server sends them in
GenerateTransactionFromEdits ==
    /\ op = "none"
    /\ \E f \in SendOrders(Len(edits)) :
        LET sent == [i \in 1..Len(edits) |-> edits[f[i]]]
        IN  /\ WellFormed(sent)
            /\ edits' = sent
            /\ \E r \in generate_transaction_from_edits(doc, sent, encoding) :
                /\ sorted' = r.sorted
                /\ path' = r.path
                /\ txn' = r.txn
    /\ op' = "generate_transaction_from_edits"
    /\ UNCHANGED <<doc, encoding, posVars, applied, regVars, auxVars>>

\* transaction.apply(&mut doc) by the caller
Apply ==
    /\ op = "generate_transaction_from_edits"
    /\ txn.kind = "ChangeSet"
    /\ op' = "apply"
    /\ applied' = Transaction_apply(txn, doc)
    /\ UNCHANGED <<doc, encoding, posVars, edits, sorted, path, txn, regVars, auxVars>>

NextEdits == ComputeEdit \/ GenerateTransactionFromEdits \/ Apply

SpecEdits == InitEdits /\ [][NextEdits]_vars

\* ------------------------------------------------------------------------
\* Snippets: the calls of generate_transaction_from_snippet
\* ------------------------------------------------------------------------
SnippetDocs == SeqsUpTo({"a", "LF"}, MaxSnippetDoc)

\* the selections of a document: one range or two, as Selection keeps them
Selections(d) ==
    LET ranges == {Range_new(a, h) : a \in 0..Len(d), h \in 0..Len(d)}
    IN  {sel \in {<<r>> : r \in ranges} \cup {<<r, q>> : r \in ranges, q \in ranges} :
            normalize(sel) = sel}

\* the offsets of a completion item from the cursor: it replaces what was
\* typed before the cursor, or what follows it
StartOffsets == {-1, 0}
EndOffsets == {0, 1}

\* the replaced ranges lie in the document, in the order of the selection
\* and apart from each other
Replaceable(d, sel, so, eo) ==
    /\ \A i \in 1..Len(sel) :
          /\ Range_cursor(sel[i], d) + so >= 0
          /\ Range_cursor(sel[i], d) + eo <= Len(d)
    /\ \A i \in 1..Len(sel) - 1 :
          Range_cursor(sel[i], d) + eo <= Range_cursor(sel[i + 1], d) + so

InitSnippet ==
    /\ doc \in SnippetDocs
    /\ encoding = "Utf8"
    /\ op = "none"
    /\ arg = None
    /\ ret = None
    /\ back = None
    /\ EditsIdle
    /\ RegistryNew
    /\ StreamsIdle
    /\ HandshakeIdle
    /\ ProgressNew
    /\ ParseIdle
    /\ selection \in Selections(doc)
    /\ start_offset \in StartOffsets
    /\ end_offset \in EndOffsets
    /\ Replaceable(doc, selection, start_offset, end_offset)
    /\ snippet \in SeqsUpTo(SnippetElements, MaxSnippet)
    /\ with_selection = <<>>

\* generate_transaction_from_snippet(doc, selection, start_offset,
\* end_offset, snippet, "\n", include_placeholder)
GenerateTransactionFromSnippet ==
    /\ op = "none"
    /\ \E build \in Builds :
        LET r == generate_transaction_from_snippet(doc, selection, start_offset,
                                                   end_offset, snippet, <<"LF">>, build)
        IN  /\ txn' = r.txn
            /\ with_selection' = r.selection
    /\ op' = "generate_transaction_from_snippet"
    /\ UNCHANGED <<doc, encoding, posVars, edits, sorted, path, applied, regVars,
                   streamVars, handshakeVars, progressVars, parseVars,
                   selection, start_offset, end_offset, snippet>>

\* transaction.apply(&mut doc) by the caller
ApplySnippet ==
    /\ op = "generate_transaction_from_snippet"
    /\ txn.kind = "ChangeSet"
    /\ op' = "apply"
    /\ applied' = Transaction_apply(txn, doc)
    /\ UNCHANGED <<doc, encoding, posVars, edits, sorted, path, txn, regVars, auxVars>>

NextSnippet == GenerateTransactionFromSnippet \/ ApplySnippet

SpecSnippet == InitSnippet /\ [][NextSnippet]_vars

\* ------------------------------------------------------------------------
\* Registry
\* ------------------------------------------------------------------------
\* AtomicUsize::fetch_add: the value stored; the value returned is the one
\* stored before
fetch_add_none(c, n) == c

fetch_add(c, n) == (c + n) % (USIZE_MAX + 1)

\* HashMap::entry
entry_vacant(map, scope) == "Vacant"

entry(map, scope) == IF map[scope] = None THEN "Vacant" ELSE "Occupied"

\* HashMap::remove
remove_nothing(map, scope) == map

remove(map, scope) == [map EXCEPT ![scope] = None]

\* tokio::spawn(async move { let _ = client.force_shutdown().await; })
spawn_force_shutdown_dropped(tasks, client) == tasks

spawn_force_shutdown(tasks, client) == tasks \cup {client}

\* the value of inner for a client and the id it was started with
Entry(id, client) == Some([id |-> id, client |-> client])

\* Registry::get_by_id: the clients find may return; HashMap::values visits
\* the entries in no specified order
get_by_id(map, id) ==
    {unwrap(map[s]).client : s \in {x \in Scopes : map[x] # None /\ unwrap(map[x]).id = id}}

\* HashMap::retain(|_, (client_id, _)| client_id != &id)
retain_not_id(map, id) ==
    [s \in Scopes |-> IF map[s] # None /\ unwrap(map[s]).id = id THEN None ELSE map[s]]

InitRegistry ==
    /\ doc = <<>>
    /\ encoding = "Utf8"
    /\ op = "none"
    /\ arg = None
    /\ ret = None
    /\ back = None
    /\ EditsIdle
    /\ RegistryNew
    /\ AuxIdle

\* what every call of a Registry method does to the record of the calls
Called(name, a) ==
    /\ calls < MaxCalls
    /\ calls' = calls + 1
    /\ rop' = name
    /\ rarg' = a
    /\ before' = Snapshot
    /\ UNCHANGED <<doc, encoding, op, posVars, editVars, forced, auxVars>>

\* a get that gives the id back to the counter when start_client fails
Get_id_given_back(language_config, started) ==
    /\ Called("get", CfgArg(language_config))
    /\ IF ~language_config.language_server
       THEN /\ rret' = Ok(None)
            /\ UNCHANGED <<inner, counter, incoming, shutdown, issued>>
       ELSE IF entry(inner, language_config.scope) = "Occupied"
       THEN /\ rret' = Ok(Some(unwrap(inner[language_config.scope]).client))
            /\ UNCHANGED <<inner, counter, incoming, shutdown, issued>>
       ELSE LET id == counter
                client == Len(issued) + 1
            IN  /\ issued' = Append(issued, [id |-> id, started |-> started])
                /\ UNCHANGED shutdown
                /\ IF started
                   THEN /\ counter' = fetch_add(counter, 1)
                        /\ incoming' = incoming \cup {client}
                        /\ inner' = [inner EXCEPT ![language_config.scope] = Entry(id, client)]
                        /\ rret' = Ok(Some(client))
                   ELSE /\ rret' = Err
                        /\ UNCHANGED <<inner, incoming, counter>>

\* Registry::get; started tells whether start_client returns Ok
Get(language_config, started) ==
    /\ Called("get", CfgArg(language_config))
    /\ IF ~language_config.language_server
       THEN /\ rret' = Ok(None)
            /\ UNCHANGED <<inner, counter, incoming, shutdown, issued>>
       ELSE IF entry(inner, language_config.scope) = "Occupied"
       THEN /\ rret' = Ok(Some(unwrap(inner[language_config.scope]).client))
            /\ UNCHANGED <<inner, counter, incoming, shutdown, issued>>
       ELSE LET id == counter
                client == Len(issued) + 1
            IN  /\ counter' = fetch_add(counter, 1)
                /\ issued' = Append(issued, [id |-> id, started |-> started])
                /\ UNCHANGED shutdown
                /\ IF started
                   THEN /\ incoming' = incoming \cup {client}
                        /\ inner' = [inner EXCEPT ![language_config.scope] = Entry(id, client)]
                        /\ rret' = Ok(Some(client))
                   ELSE /\ rret' = Err
                        /\ UNCHANGED <<inner, incoming>>

\* a restart that starts a client for a scope without entry, as get does
Restart_starts_on_vacant(language_config, started) ==
    /\ Called("restart", CfgArg(language_config))
    /\ IF ~language_config.language_server
       THEN /\ rret' = Ok(None)
            /\ UNCHANGED <<inner, counter, incoming, shutdown, issued>>
       ELSE LET id == counter
                client == Len(issued) + 1
            IN  /\ counter' = fetch_add(counter, 1)
                /\ issued' = Append(issued, [id |-> id, started |-> started])
                /\ IF started
                   THEN /\ incoming' = incoming \cup {client}
                        /\ inner' = [inner EXCEPT ![language_config.scope] = Entry(id, client)]
                        /\ shutdown' = IF inner[language_config.scope] = None THEN shutdown
                                       ELSE spawn_force_shutdown(shutdown,
                                                unwrap(inner[language_config.scope]).client)
                        /\ rret' = Ok(Some(client))
                   ELSE /\ rret' = Err
                        /\ UNCHANGED <<inner, incoming, shutdown>>

\* Registry::restart
Restart(language_config, started) ==
    /\ Called("restart", CfgArg(language_config))
    /\ IF ~language_config.language_server
       THEN /\ rret' = Ok(None)
            /\ UNCHANGED <<inner, counter, incoming, shutdown, issued>>
       ELSE IF entry(inner, language_config.scope) = "Vacant"
       THEN /\ rret' = Ok(None)
            /\ UNCHANGED <<inner, counter, incoming, shutdown, issued>>
       ELSE LET id == counter
                client == Len(issued) + 1
                old_client == unwrap(inner[language_config.scope]).client
            IN  /\ counter' = fetch_add(counter, 1)
                /\ issued' = Append(issued, [id |-> id, started |-> started])
                /\ IF started
                   THEN /\ incoming' = incoming \cup {client}
                        /\ inner' = [inner EXCEPT ![language_config.scope] = Entry(id, client)]
                        /\ shutdown' = spawn_force_shutdown(shutdown, old_client)
                        /\ rret' = Ok(Some(client))
                   ELSE /\ rret' = Err
                        /\ UNCHANGED <<inner, incoming, shutdown>>

\* Registry::stop
Stop(language_config) ==
    /\ Called("stop", CfgArg(language_config))
    /\ rret' = Unit
    /\ inner' = remove(inner, language_config.scope)
    /\ shutdown' = IF inner[language_config.scope] # None
                   THEN spawn_force_shutdown(shutdown,
                                             unwrap(inner[language_config.scope]).client)
                   ELSE shutdown
    /\ UNCHANGED <<counter, incoming, issued>>

\* a remove_by_id that shuts the removed client down, as stop does
RemoveById_shuts_down(id) ==
    /\ Called("remove_by_id", IdArg(id))
    /\ rret' = Unit
    /\ inner' = retain_not_id(inner, id)
    /\ shutdown' = shutdown \cup get_by_id(inner, id)
    /\ UNCHANGED <<counter, incoming, issued>>

\* Registry::remove_by_id
RemoveById(id) ==
    /\ Called("remove_by_id", IdArg(id))
    /\ rret' = Unit
    /\ inner' = retain_not_id(inner, id)
    /\ UNCHANGED <<counter, incoming, shutdown, issued>>

\* Registry::get_by_id
GetById(id) ==
    /\ Called("get_by_id", IdArg(id))
    /\ IF get_by_id(inner, id) = {}
       THEN rret' = Found(None)
       ELSE \E client \in get_by_id(inner, id) : rret' = Found(Some(client))
    /\ UNCHANGED <<inner, counter, incoming, shutdown, issued>>

\* a task tokio::spawn was given runs: force_shutdown is invoked on its
\* client
ForceShutdown ==
    /\ \E client \in shutdown \ forced : forced' = forced \cup {client}
    /\ UNCHANGED <<doc, encoding, op, posVars, editVars>>
    /\ UNCHANGED <<inner, counter, incoming, shutdown, issued, calls, rop, rarg, rret,
                   before, auxVars>>

\* the ids a caller has: those of the clients started, and one of no client
Ids == {issued[n].id : n \in 1..Len(issued)} \cup {counter}

NextRegistry ==
    \/ \E language_config \in LanguageConfigurations, started \in BOOLEAN :
          Get(language_config, started)
    \/ \E language_config \in LanguageConfigurations, started \in BOOLEAN :
          Restart(language_config, started)
    \/ \E language_config \in LanguageConfigurations : Stop(language_config)
    \/ \E id \in Ids : RemoveById(id)
    \/ \E id \in Ids : GetById(id)
    \/ ForceShutdown

SpecRegistry == InitRegistry /\ [][NextRegistry]_vars

\* the runtime runs every task it was given
SpecRegistryLive == SpecRegistry /\ WF_vars(ForceShutdown)

\* ------------------------------------------------------------------------
\* Registry::incoming
\* ------------------------------------------------------------------------
\* Stream::poll_next of an UnboundedReceiverStream whose channel holds queue:
\* the item given and what the channel holds then
poll_next_newest(queue) ==
    [item |-> queue[Len(queue)], rest |-> SubSeq(queue, 1, Len(queue) - 1)]

poll_next(queue) == [item |-> Head(queue), rest |-> Tail(queue)]

\* the transport of a client started sends a call: it pairs the call with
\* the id Client::start was given and puts the pair on the channel of the
\* client.  The calls are numbered in the order they are sent in; from is
\* the client, which the pair does not hold
Transport(client) ==
    /\ sentCalls < MaxSent
    /\ client <= Len(issued)
    /\ issued[client].started
    /\ sentCalls' = sentCalls + 1
    /\ channel' = [channel EXCEPT ![client] =
                      Append(@, [id |-> issued[client].id, call |-> sentCalls + 1,
                                 from |-> client])]
    /\ UNCHANGED <<doc, encoding, op, posVars, editVars, snippetVars, regVars, delivered, handshakeVars,
                   progressVars, parseVars>>

\* SelectAll::poll_next: Registry::incoming gives the next pair of one of
\* the streams pushed
IncomingNext(client) ==
    /\ client \in incoming
    /\ channel[client] # <<>>
    /\ delivered' = Append(delivered, poll_next(channel[client]).item)
    /\ channel' = [channel EXCEPT ![client] = poll_next(channel[client]).rest]
    /\ UNCHANGED <<doc, encoding, op, posVars, editVars, snippetVars, regVars, sentCalls, handshakeVars,
                   progressVars, parseVars>>

NextIncoming ==
    \/ \E language_config \in LanguageConfigurations, started \in BOOLEAN :
          calls < MaxStarts /\ Get(language_config, started)
    \/ \E language_config \in LanguageConfigurations, started \in BOOLEAN :
          calls < MaxStarts /\ Restart(language_config, started)
    \/ \E client \in ClientHandles : Transport(client)
    \/ \E client \in ClientHandles : IncomingNext(client)

SpecIncoming == InitRegistry /\ [][NextIncoming]_vars

\* ------------------------------------------------------------------------
\* start_client: the task that initializes the client
\* ------------------------------------------------------------------------
\* the capabilities a server may answer initialize with
ServerCapabilities == {"hover", "hover+format"}

\* start_client returned Ok for the client, so its task was spawned
Spawned(client) == client <= Len(issued) /\ issued[client].started

\* what the steps of the task leave alone
TaskStep ==
    UNCHANGED <<doc, encoding, op, posVars, editVars, snippetVars, regVars, streamVars, progressVars,
                parseVars>>

\* OnceCell::get_or_try_init lets one initializer run at a time: a caller
\* that finds the cell unset runs its own only while no other is in flight
permit(client) == task[client] # "initialize" /\ waiter[client] # "initialize"

\* what get_or_try_init returns to the caller whose initializer returned
\* response
Returned(response) == IF response # None THEN Ok(response) ELSE Err

\* a task that sends initialize whatever the cell holds and whoever is
\* initializing it
Initialize_unguarded(client) ==
    /\ Spawned(client)
    /\ task[client] = "spawned"
    /\ task' = [task EXCEPT ![client] = "initialize"]
    /\ events' = [events EXCEPT ![client] = Append(@, "initialize")]
    /\ initializers' = [initializers EXCEPT ![client] = Append(@, "task")]
    /\ UNCHANGED <<capabilities, waiter, got>>
    /\ TaskStep

\* capabilities.get_or_try_init(..) finds the cell unset and calls
\* _client.initialize(): the initialize request is sent
Initialize(client) ==
    /\ Spawned(client)
    /\ task[client] = "spawned"
    /\ capabilities[client] = None
    /\ permit(client)
    /\ task' = [task EXCEPT ![client] = "initialize"]
    /\ events' = [events EXCEPT ![client] = Append(@, "initialize")]
    /\ initializers' = [initializers EXCEPT ![client] = Append(@, "task")]
    /\ UNCHANGED <<capabilities, waiter, got>>
    /\ TaskStep

\* capabilities.get_or_try_init(..) finds the cell set: it returns the value
\* stored and the initializer is not called
InitializeSkipped(client) ==
    /\ Spawned(client)
    /\ task[client] = "spawned"
    /\ capabilities[client] # None
    /\ task' = [task EXCEPT ![client] = "stored"]
    /\ got' = [got EXCEPT ![client].task = Ok(capabilities[client])]
    /\ UNCHANGED <<capabilities, events, waiter, initializers>>
    /\ TaskStep

\* initialize() returns: Ok(response), whose capabilities get_or_try_init
\* stores in the cell, or Err, which leaves the cell unset and ends the task
\* after log::error!
InitializeReturns(client, response) ==
    /\ task[client] = "initialize"
    /\ IF response # None
       THEN /\ capabilities' = [capabilities EXCEPT ![client] = response]
            /\ task' = [task EXCEPT ![client] = "stored"]
            /\ events' = [events EXCEPT ![client] = Append(@, "capabilities")]
       ELSE /\ task' = [task EXCEPT ![client] = "failed"]
            /\ UNCHANGED <<capabilities, events>>
    /\ got' = [got EXCEPT ![client].task = Returned(response)]
    /\ UNCHANGED <<waiter, initializers>>
    /\ TaskStep

\* notify::<Initialized>(..).await.unwrap(): the notification is sent, or
\* notify returns Err and unwrap panics, which ends the task
NotifyInitialized(client, ok) ==
    /\ task[client] = "stored"
    /\ IF ok
       THEN /\ task' = [task EXCEPT ![client] = "initialized"]
            /\ events' = [events EXCEPT ![client] = Append(@, "initialized")]
       ELSE /\ task' = [task EXCEPT ![client] = "panicked"]
            /\ UNCHANGED events
    /\ UNCHANGED <<capabilities, waiter, got, initializers>>
    /\ TaskStep

\* a task that signals ready as soon as the capabilities are stored
NotifyOne_before_initialized(client) ==
    /\ task[client] = "stored"
    /\ task' = [task EXCEPT ![client] = "ready"]
    /\ events' = [events EXCEPT ![client] = Append(@, "ready")]
    /\ UNCHANGED <<capabilities, waiter, got, initializers>>
    /\ TaskStep

\* initialize_notify.notify_one()
NotifyOne(client) ==
    /\ task[client] = "initialized"
    /\ task' = [task EXCEPT ![client] = "ready"]
    /\ events' = [events EXCEPT ![client] = Append(@, "ready")]
    /\ UNCHANGED <<capabilities, waiter, got, initializers>>
    /\ TaskStep

NextHandshake ==
    \/ \E language_config \in LanguageConfigurations, started \in BOOLEAN :
          calls < MaxStarts /\ Get(language_config, started)
    \/ \E language_config \in LanguageConfigurations, started \in BOOLEAN :
          calls < MaxStarts /\ Restart(language_config, started)
    \/ \E client \in ClientHandles : Initialize(client)
    \/ \E client \in ClientHandles, caps \in ServerCapabilities :
          InitializeReturns(client, Some(caps))
    \/ \E client \in ClientHandles : InitializeReturns(client, None)
    \/ \E client \in ClientHandles, ok \in BOOLEAN : NotifyInitialized(client, ok)
    \/ \E client \in ClientHandles : NotifyOne(client)

SpecHandshake == InitRegistry /\ [][NextHandshake]_vars

\* ------------------------------------------------------------------------
\* Client::capabilities with a second caller of get_or_try_init
\* ------------------------------------------------------------------------
\* what the steps of the second caller leave alone
WaiterStep ==
    /\ UNCHANGED <<task, events>>
    /\ TaskStep

\* a second caller awaits capabilities.get_or_try_init(..) with the same
\* initializer while the task of start_client does
WaiterCalls(client) ==
    /\ Spawned(client)
    /\ waiter[client] = "idle"
    /\ waiter' = [waiter EXCEPT ![client] = "waiting"]
    /\ UNCHANGED <<capabilities, got, initializers>>
    /\ WaiterStep

\* its get_or_try_init finds the cell unset and no initializer in flight,
\* and calls initialize()
WaiterInitialize(client) ==
    /\ waiter[client] = "waiting"
    /\ capabilities[client] = None
    /\ permit(client)
    /\ waiter' = [waiter EXCEPT ![client] = "initialize"]
    /\ initializers' = [initializers EXCEPT ![client] = Append(@, "waiter")]
    /\ UNCHANGED <<capabilities, got>>
    /\ WaiterStep

\* its get_or_try_init finds the cell set and returns the value stored
WaiterSkipped(client) ==
    /\ waiter[client] = "waiting"
    /\ capabilities[client] # None
    /\ waiter' = [waiter EXCEPT ![client] = "returned"]
    /\ got' = [got EXCEPT ![client].waiter = Ok(capabilities[client])]
    /\ UNCHANGED <<capabilities, initializers>>
    /\ WaiterStep

\* its initialize() returns
WaiterInitializeReturns(client, response) ==
    /\ waiter[client] = "initialize"
    /\ waiter' = [waiter EXCEPT ![client] = "returned"]
    /\ capabilities' = IF response # None
                       THEN [capabilities EXCEPT ![client] = response]
                       ELSE capabilities
    /\ got' = [got EXCEPT ![client].waiter = Returned(response)]
    /\ UNCHANGED initializers
    /\ WaiterStep

NextCapabilities ==
    \/ \E language_config \in LanguageConfigurations, started \in BOOLEAN :
          calls < MaxCells /\ Get(language_config, started)
    \/ \E client \in ClientHandles : Initialize(client)
    \/ \E client \in ClientHandles : InitializeSkipped(client)
    \/ \E client \in ClientHandles, caps \in ServerCapabilities :
          InitializeReturns(client, Some(caps))
    \/ \E client \in ClientHandles : InitializeReturns(client, None)
    \/ \E client \in ClientHandles, ok \in BOOLEAN : NotifyInitialized(client, ok)
    \/ \E client \in ClientHandles : NotifyOne(client)
    \/ \E client \in ClientHandles : WaiterCalls(client)
    \/ \E client \in ClientHandles : WaiterInitialize(client)
    \/ \E client \in ClientHandles : WaiterSkipped(client)
    \/ \E client \in ClientHandles, caps \in ServerCapabilities :
          WaiterInitializeReturns(client, Some(caps))
    \/ \E client \in ClientHandles : WaiterInitializeReturns(client, None)

SpecCapabilities == InitRegistry /\ [][NextCapabilities]_vars

\* ------------------------------------------------------------------------
\* LspProgressMap
\* ------------------------------------------------------------------------
\* ProgressStatus
Created == [kind |-> "Created", progress |-> None]
Started(status) == [kind |-> "Started", progress |-> Some(status)]

\* lsp::WorkDoneProgress, by its kind
WorkDoneProgress == {"Begin", "Report"}

\* self.0.entry(id).or_default()
or_default(map, id) == IF map[id] = None THEN NoTokens ELSE unwrap(map[id])

\* LspProgressMap::progress_map
progress_map(map, id) == map[id]

\* LspProgressMap::is_progressing
is_progressing(map, id) ==
    IF map[id] = None THEN FALSE
    ELSE \E token \in ProgressTokens : unwrap(map[id])[token] # None

\* LspProgressMap::progress
progress(map, id, token) ==
    IF map[id] = None THEN None ELSE unwrap(map[id])[token]

\* LspProgressMap::is_created
is_created(map, id, token) ==
    IF map[id] = None THEN FALSE ELSE unwrap(map[id])[token] # None

\* a create that starts the tokens of the server anew
create_anew(map, id, token) ==
    [map EXCEPT ![id] = Some([NoTokens EXCEPT ![token] = Some(Created)])]

\* LspProgressMap::create: the map it leaves
create(map, id, token) ==
    [map EXCEPT ![id] = Some([or_default(map, id) EXCEPT ![token] = Some(Created)])]

\* an end_progress that returns the status and leaves it in the map
end_progress_kept(map, id, token) ==
    [map |-> map, ret |-> progress(map, id, token)]

\* LspProgressMap::end_progress: the map it leaves and what it returns
end_progress(map, id, token) ==
    IF map[id] = None THEN [map |-> map, ret |-> None]
    ELSE [map |-> [map EXCEPT ![id] = Some([unwrap(map[id]) EXCEPT ![token] = None])],
          ret |-> unwrap(map[id])[token]]

\* LspProgressMap::update: the map it leaves and what it returns
update(map, id, token, status) ==
    [map |-> [map EXCEPT ![id] =
                 Some([or_default(map, id) EXCEPT ![token] = Some(Started(status))])],
     ret |-> or_default(map, id)[token]]

InitProgress ==
    /\ doc = <<>>
    /\ encoding = "Utf8"
    /\ op = "none"
    /\ arg = None
    /\ ret = None
    /\ back = None
    /\ EditsIdle
    /\ RegistryNew
    /\ AuxIdle

\* what every call on the LspProgressMap does to the record of the calls
ProgressCalled(name, id, token, status) ==
    /\ Len(plog) < MaxProgressCalls
    /\ plog' = Append(plog, [op |-> name, id |-> id, token |-> token, status |-> status])
    /\ pbefore' = pmap
    /\ UNCHANGED <<doc, encoding, op, posVars, editVars, snippetVars, regVars, streamVars, handshakeVars,
                   parseVars>>

Create(id, token) ==
    /\ ProgressCalled("create", id, token, None)
    /\ pmap' = create(pmap, id, token)
    /\ pret' = None

Update(id, token, status) ==
    /\ ProgressCalled("update", id, token, Some(status))
    /\ pmap' = update(pmap, id, token, status).map
    /\ pret' = update(pmap, id, token, status).ret

EndProgress(id, token) ==
    /\ ProgressCalled("end_progress", id, token, None)
    /\ pmap' = end_progress(pmap, id, token).map
    /\ pret' = end_progress(pmap, id, token).ret

NextProgress ==
    \/ \E id \in ProgressIds, token \in ProgressTokens : Create(id, token)
    \/ \E id \in ProgressIds, token \in ProgressTokens, status \in WorkDoneProgress :
          Update(id, token, status)
    \/ \E id \in ProgressIds, token \in ProgressTokens : EndProgress(id, token)

SpecProgress == InitProgress /\ [][NextProgress]_vars

\* ------------------------------------------------------------------------
\* MethodCall::parse, Notification::parse
\* ------------------------------------------------------------------------
\* the fields a Map must hold to deserialize as the lsp_types struct
RequiredFields(type) ==
    CASE type = "WorkDoneProgressCreateParams" -> {"token"}
      [] type = "ApplyWorkspaceEditParams" -> {"edit"}
      [] type = "ConfigurationParams" -> {"items"}
      [] type = "PublishDiagnosticsParams" -> {"uri", "diagnostics"}
      [] type = "ShowMessageParams" -> {"type", "message"}
      [] type = "LogMessageParams" -> {"type", "message"}
      [] type = "ProgressParams" -> {"token", "value"}

\* jsonrpc::Params::parse::<type>() followed by ?: the params as the struct,
\* or the jsonrpc::Error as Error::Rpc
params_parse(p, type) ==
    IF p.kind = "Map" /\ RequiredFields(type) \subseteq p.fields
    THEN Ok([type |-> type, fields |-> p.fields \cap RequiredFields(type)])
    ELSE ParseErr("Rpc")

\* a parse whose last arm takes the message for a workspaceFolders request
MethodCall_parse_any_as_folders(m, p) ==
    IF m = "window/workDoneProgress/create"
    THEN LET r == params_parse(p, "WorkDoneProgressCreateParams")
         IN  IF r.kind = "Err" THEN r ELSE ParsedAs("WorkDoneProgressCreate", Some(r.value))
    ELSE IF m = "workspace/applyEdit"
    THEN LET r == params_parse(p, "ApplyWorkspaceEditParams")
         IN  IF r.kind = "Err" THEN r ELSE ParsedAs("ApplyWorkspaceEdit", Some(r.value))
    ELSE IF m = "workspace/configuration"
    THEN LET r == params_parse(p, "ConfigurationParams")
         IN  IF r.kind = "Err" THEN r ELSE ParsedAs("WorkspaceConfiguration", Some(r.value))
    ELSE ParsedAs("WorkspaceFolders", None)

\* MethodCall::parse
MethodCall_parse(m, p) ==
    IF m = "window/workDoneProgress/create"
    THEN LET r == params_parse(p, "WorkDoneProgressCreateParams")
         IN  IF r.kind = "Err" THEN r ELSE ParsedAs("WorkDoneProgressCreate", Some(r.value))
    ELSE IF m = "workspace/applyEdit"
    THEN LET r == params_parse(p, "ApplyWorkspaceEditParams")
         IN  IF r.kind = "Err" THEN r ELSE ParsedAs("ApplyWorkspaceEdit", Some(r.value))
    ELSE IF m = "workspace/workspaceFolders"
    THEN ParsedAs("WorkspaceFolders", None)
    ELSE IF m = "workspace/configuration"
    THEN LET r == params_parse(p, "ConfigurationParams")
         IN  IF r.kind = "Err" THEN r ELSE ParsedAs("WorkspaceConfiguration", Some(r.value))
    ELSE ParseErr("Unhandled")

\* Notification::parse
Notification_parse(m, p) ==
    IF m = "initialized" THEN ParsedAs("Initialized", None)
    ELSE IF m = "exit" THEN ParsedAs("Exit", None)
    ELSE IF m = "textDocument/publishDiagnostics"
    THEN LET r == params_parse(p, "PublishDiagnosticsParams")
         IN  IF r.kind = "Err" THEN r ELSE ParsedAs("PublishDiagnostics", Some(r.value))
    ELSE IF m = "window/showMessage"
    THEN LET r == params_parse(p, "ShowMessageParams")
         IN  IF r.kind = "Err" THEN r ELSE ParsedAs("ShowMessage", Some(r.value))
    ELSE IF m = "window/logMessage"
    THEN LET r == params_parse(p, "LogMessageParams")
         IN  IF r.kind = "Err" THEN r ELSE ParsedAs("LogMessage", Some(r.value))
    ELSE IF m = "$/progress"
    THEN LET r == params_parse(p, "ProgressParams")
         IN  IF r.kind = "Err" THEN r ELSE ParsedAs("ProgressMessage", Some(r.value))
    ELSE ParseErr("Unhandled")

\* the methods a server sends: the requests and notifications the parses
\* know, and others
Methods ==
    {"window/workDoneProgress/create", "workspace/applyEdit",
     "workspace/workspaceFolders", "workspace/configuration",
     "initialized", "exit", "textDocument/publishDiagnostics",
     "window/showMessage", "window/logMessage", "$/progress",
     "", "Initialized", "window/showMessageRequest", "client/registerCapability",
     "telemetry/event", "workspace/applyEdit/"}

FieldNames == {"token", "value", "edit", "items", "uri", "diagnostics", "type", "message"}

InitParse ==
    /\ doc = <<>>
    /\ encoding = "Utf8"
    /\ op = "none"
    /\ arg = None
    /\ ret = None
    /\ back = None
    /\ EditsIdle
    /\ RegistryNew
    /\ StreamsIdle
    /\ HandshakeIdle
    /\ ProgressNew
    /\ SnippetIdle
    /\ method \in Methods
    /\ params \in {ParamsNone} \cup {ParamsMap(fields) : fields \in SUBSET FieldNames}
    /\ parser = "none"
    /\ parsed = NotParsed

\* the message is a request: MethodCall::parse(method, params)
MethodCallParse ==
    /\ parser = "none"
    /\ parser' = "MethodCall"
    /\ parsed' = MethodCall_parse(method, params)
    /\ UNCHANGED <<doc, encoding, op, posVars, editVars, snippetVars, regVars, streamVars, handshakeVars,
                   progressVars, method, params>>

\* the message is a notification: Notification::parse(method, params)
NotificationParse ==
    /\ parser = "none"
    /\ parser' = "Notification"
    /\ parsed' = Notification_parse(method, params)
    /\ UNCHANGED <<doc, encoding, op, posVars, editVars, snippetVars, regVars, streamVars, handshakeVars,
                   progressVars, method, params>>

NextParse == MethodCallParse \/ NotificationParse

SpecParse == InitParse /\ [][NextParse]_vars

\* ------------------------------------------------------------------------
\* Position conversion: properties
\* ------------------------------------------------------------------------
\* char index p is the LF of a CRLF terminator
InsideCrlf(d, p) == p >= 1 /\ p < Len(d) /\ d[p] = "CR" /\ d[p + 1] = "LF"

\* char index p is a char of a line terminator
OnTerminator(d, p) ==
    p < Len(d) /\ (d[p + 1] = "LF" \/ (d[p + 1] = "CR" /\ p + 1 < Len(d) /\ d[p + 2] = "LF"))

\* C1 as claimed: the round trip returns Some(p) for every char index p,
\* the second char of a CRLF terminator included.
C1_RoundTripAll == op = "round_trip" => back = Some(arg)

\* C1 amended: the round trip returns Some(p) for every char index p that is
\* not the LF of a CRLF terminator, and Some(p - 1), the index of the CR,
\* for one that is.
C1_RoundTrip ==
    op = "round_trip" =>
        back = IF InsideCrlf(doc, arg) THEN Some(arg - 1) ELSE Some(arg)

\* a round trip of a char index behind a surrogate pair on a later line that
\* addresses a line terminator, and one of the LF of a CRLF
C1_Witness ==
    /\ op = "round_trip"
    /\ encoding = "Utf16"
    /\ arg >= 3
    /\ doc[1] = "LF"
    /\ doc[2] = "t4"
    /\ OnTerminator(doc, arg)
    /\ InsideCrlf(doc, arg)
    /\ back = Some(arg - 1)

\* the length of line l, its terminator included, in the units of enc
LineLenUnits(d, l, enc) ==
    LET s == line_to_char(d, l)
        e == line_to_char(d, l + 1)
    IN  CASE enc = "Utf8"  -> char_to_byte(d, e) - char_to_byte(d, s)
          [] enc = "Utf16" -> char_to_utf16_cu(d, e) - char_to_utf16_cu(d, s)
          [] enc = "Utf32" -> e - s

\* C2: a position whose line is at most len_lines - 1 and whose character is
\* at most the length of the line is converted to Some(i), 0 <= i <= len_chars.
C2_InBoundsIsSome ==
    (/\ op = "lsp_pos_to_pos"
     /\ arg.line <= len_lines(doc) - 1
     /\ arg.character <= LineLenUnits(doc, arg.line, encoding))
    => (ret # None /\ unwrap(ret) \in 0..len_chars(doc))

\* an in-bounds position on the last line of a document of several lines,
\* inside a multi-unit char
C2_Witness ==
    /\ op = "lsp_pos_to_pos"
    /\ encoding = "Utf8"
    /\ doc = <<"a", "LF", "t4">>
    /\ arg = Position(1, 2)
    /\ ret = Some(2)

\* the offset of the position in the units of enc, from the start of the
\* document, before it is capped
RawOffset(d, pos, enc) == line_start_unit(d, pos.line, enc) + pos.character

\* C3: for a line in range the result is never greater than the index of the
\* end of the line before its terminator, and is that index when character
\* is greater than the length of the line; the cases of the tests hold.
C3_ClampToLineEnd ==
    (op = "lsp_pos_to_pos" /\ arg.line <= len_lines(doc) - 1) =>
        /\ ret # None
        /\ unwrap(ret) <= line_end_char_index(doc, arg.line)
        /\ unwrap(ret) >= line_to_char(doc, arg.line)
        /\ RawOffset(doc, arg, encoding) >= line_end_unit(doc, arg.line, encoding)
              => unwrap(ret) = line_end_char_index(doc, arg.line)
        /\ (doc = TestCaseDoc /\ arg \in {Position(4, 4), Position(4, 5)})
              => ret = Some(12)
        /\ (doc = TestCaseDoc /\ arg = Position(4, 3)) => ret = Some(11)
        /\ (doc = <<"LF", "LF">> /\ arg = Position(1, 1)) => ret = Some(1)
        /\ (doc = <<>> /\ arg = Position(0, 1)) => ret = Some(0)

\* (4, 5) of "test\n\n\n\ncase" under UTF-16 gives 12
C3_Witness ==
    /\ op = "lsp_pos_to_pos"
    /\ encoding = "Utf16"
    /\ doc = TestCaseDoc
    /\ arg = Position(4, 5)
    /\ ret = Some(12)

\* C4: a position whose line is greater than len_lines - 1 is converted to
\* None whatever its character and the encoding; len_lines is at least 1, so
\* len_lines - 1 does not underflow.
C4_LineOutOfBounds ==
    /\ len_lines(doc) >= 1
    /\ (op = "lsp_pos_to_pos" /\ arg.line > len_lines(doc) - 1) => ret = None

\* (u32::MAX, u32::MAX) of the empty document
C4_Witness ==
    /\ op = "lsp_pos_to_pos"
    /\ doc = <<>>
    /\ arg = Position(U32_MAX, U32_MAX)
    /\ ret = None

\* the capped offset lies strictly inside a char of several units
InsideCodePoint(d, pos, enc) ==
    LET o == capped_offset(d, pos, enc)
    IN  CASE enc = "Utf8" ->
               \E c \in 1..Len(d) : char_to_byte(d, c - 1) < o /\ o < char_to_byte(d, c)
          [] enc = "Utf16" ->
               \E c \in 1..Len(d) :
                   char_to_utf16_cu(d, c - 1) < o /\ o < char_to_utf16_cu(d, c)
          [] enc = "Utf32" -> FALSE

\* the index of the char whose units enclose offset o
EnclosingChar(d, o, enc) ==
    CHOOSE c \in 0..(Len(d) - 1) :
        IF enc = "Utf8"
        THEN char_to_byte(d, c) < o /\ o < char_to_byte(d, c + 1)
        ELSE char_to_utf16_cu(d, c) < o /\ o < char_to_utf16_cu(d, c + 1)

\* C5 as claimed: a capped offset strictly inside a multi-unit char is
\* converted to None.
C5_InsideCodePointIsNone ==
    (/\ op = "lsp_pos_to_pos"
     /\ arg.line <= len_lines(doc) - 1
     /\ InsideCodePoint(doc, arg, encoding))
    => ret = None

\* C5 amended: a capped offset strictly inside a multi-unit char is converted
\* to Some(the index of that char), never to None.
C5_InsideCodePointIsEnclosingChar ==
    (/\ op = "lsp_pos_to_pos"
     /\ arg.line <= len_lines(doc) - 1
     /\ InsideCodePoint(doc, arg, encoding))
    => ret = Some(EnclosingChar(doc, capped_offset(doc, arg, encoding), encoding))

\* the second code unit of a surrogate pair, and the third byte of a four
\* byte char
C5_Witness ==
    /\ op = "lsp_pos_to_pos"
    /\ doc = <<"a", "t4", "a">>
    /\ \/ encoding = "Utf16" /\ arg = Position(0, 2) /\ ret = Some(1)
       \/ encoding = "Utf8" /\ arg = Position(0, 3) /\ ret = Some(1)

\* ------------------------------------------------------------------------
\* Edits: properties
\* ------------------------------------------------------------------------
\* both ends of the range of every edit of the list translate
Translatable(d, list, enc) ==
    \A i \in 1..Len(list) :
        /\ lsp_pos_to_pos(d, list[i].range.start, enc) # None
        /\ lsp_pos_to_pos(d, list[i].range.end, enc) # None

\* the list in the order of the range starts, edits of one start in the
\* order of the list
RECURSIVE InStartOrder(_)
InStartOrder(list) ==
    IF list = <<>> THEN <<>>
    ELSE LET i == CHOOSE j \in 1..Len(list) :
                    /\ \A k \in 1..Len(list) :
                          PositionLeq(list[j].range.start, list[k].range.start)
                    /\ \A k \in 1..(j - 1) : list[k].range.start # list[j].range.start
         IN  <<list[i]>> \o InStartOrder(RemoveAt(list, i))

\* text after the edits of list from the i-th on were applied to it one
\* after another; the ranges are those of the original document d, and
\* shift is what the edits applied before have added to the indices behind
\* them
RECURSIVE ApplyOneByOne(_, _, _, _, _, _)
ApplyOneByOne(d, enc, list, i, text, shift) ==
    IF i > Len(list) THEN text
    ELSE LET from == unwrap(lsp_pos_to_pos(d, list[i].range.start, enc))
             to == unwrap(lsp_pos_to_pos(d, list[i].range.end, enc))
         IN  ApplyOneByOne(d, enc, list, i + 1,
                 SubSeq(text, 1, from + shift) \o list[i].new_text
                     \o SubSeqFrom(text, to + shift),
                 shift + Len(list[i].new_text) - (to - from))

\* C6: for a list of edits with translatable, pairwise disjoint ranges a
\* transaction is returned, and applying it gives the text that applying
\* the edits one after another in the order of their range starts gives.
C6_AsOneByOne ==
    (op \in {"generate_transaction_from_edits", "apply"}
        /\ Translatable(doc, edits, encoding))
    => /\ txn.kind = "ChangeSet"
       /\ op = "apply" =>
            /\ applied.kind = "Applied"
            /\ applied.ok
            /\ applied.text = ApplyOneByOne(doc, encoding, InStartOrder(edits), 1, doc, 0)

DistinctStarts(list) ==
    \A i, j \in 1..Len(list) : i # j => list[i].range.start # list[j].range.start

RECURSIVE AllOrders(_)
AllOrders(list) ==
    IF list = <<>> THEN {<<>>}
    ELSE UNION {{<<list[i]>> \o rest : rest \in AllOrders(RemoveAt(list, i))} :
                 i \in 1..Len(list)}

\* C7: for a list of edits of pairwise distinct range starts, the list in
\* any other order gives the transaction this order gave.
C7_OrderIndependent ==
    (op = "generate_transaction_from_edits" /\ DistinctStarts(edits))
    => LET given == generate_transaction_from_edits(doc, edits, encoding)
       IN  /\ [sorted |-> sorted, path |-> path, txn |-> txn] \in given
           /\ \A q \in AllOrders(edits) :
                  generate_transaction_from_edits(doc, q, encoding) = given

\* three edits of distinct starts that change the document, sent neither
\* start first nor end first
C7_Witness ==
    /\ op = "generate_transaction_from_edits"
    /\ Len(edits) = 3
    /\ DistinctStarts(edits)
    /\ PositionLess(edits[3].range.start, edits[1].range.start)
    /\ PositionLess(edits[1].range.start, edits[2].range.start)
    /\ sorted = <<edits[3], edits[1], edits[2]>>
    /\ txn.kind = "ChangeSet"
    /\ Transaction_apply(txn, doc).ok
    /\ Transaction_apply(txn, doc).text # doc

\* the edit replaces the char range 0..len_chars
CoversDocument(d, edit, enc) ==
    /\ lsp_pos_to_pos(d, edit.range.start, enc) = Some(0)
    /\ lsp_pos_to_pos(d, edit.range.end, enc) = Some(Len(d))

\* C8: the transaction is the diff of the document and the new text exactly
\* when the list holds one edit and the edit covers the document; applying
\* it gives the new text.
C8_DocumentReplacement ==
    op \in {"generate_transaction_from_edits", "apply"} =>
        /\ path = "diff" <=> (Len(edits) = 1 /\ CoversDocument(doc, edits[1], encoding))
        /\ path = "diff" => txn = compare_ropes(doc, edits[1].new_text)
        /\ Len(edits) >= 2 => path = "change"
        /\ (path = "diff" /\ op = "apply") =>
              /\ applied.kind = "Applied"
              /\ applied.ok
              /\ applied.text = edits[1].new_text

\* one edit from the start to past the end of the last line of a document of
\* two lines, its new text another text with the same first char
C8_Witness ==
    /\ op = "apply"
    /\ path = "diff"
    /\ doc = <<"a", "LF">>
    /\ edits[1].range.end = Position(1, U32_MAX)
    /\ edits[1].new_text = <<"a">>
    /\ txn.changes = <<Retain(1), Delete(1)>>
    /\ applied.text = <<"a">>

\* an end of the range of the edit does not translate
Untranslatable(d, edit, enc) ==
    \/ lsp_pos_to_pos(d, edit.range.start, enc) = None
    \/ lsp_pos_to_pos(d, edit.range.end, enc) = None

\* the list without the edits that do not translate
RECURSIVE TranslatableOnly(_, _, _)
TranslatableOnly(d, list, enc) ==
    IF list = <<>> THEN <<>>
    ELSE IF Untranslatable(d, Head(list), enc) THEN TranslatableOnly(d, Tail(list), enc)
    ELSE <<Head(list)>> \o TranslatableOnly(d, Tail(list), enc)

\* the texts the transactions of the list give
TextsOf(d, list, enc) ==
    {Transaction_apply(r.txn, d).text :
        r \in {x \in generate_transaction_from_edits(d, list, enc) :
                  x.txn.kind = "ChangeSet"}}

\* C19: for a list some edits of which do not translate a transaction is
\* returned, it applies, and the text it gives is one the list without
\* those edits gives; stated for the lists the sort left the edits of one
\* start of in the order they came in.
C19_UntranslatableSkipped ==
    (op \in {"generate_transaction_from_edits", "apply"}
        /\ sorted = InStartOrder(edits)
        /\ \E i \in 1..Len(edits) : Untranslatable(doc, edits[i], encoding))
    => /\ txn.kind = "ChangeSet"
       /\ op = "apply" =>
            /\ applied.kind = "Applied"
            /\ applied.ok
            /\ applied.text \in TextsOf(doc, TranslatableOnly(doc, edits, encoding), encoding)

\* the text has the new texts of the edits of one start in the order the
\* edits came in: it is the text the edits give applied one after another
\* in that order
InInputOrder ==
    applied.text = ApplyOneByOne(doc, encoding, InStartOrder(edits), 1, doc, 0)

\* C20: the sort leaves the edits of one range start in the order they had
\* in the list, so the text has their new texts in that order.
C20_StableSort ==
    (op \in {"generate_transaction_from_edits", "apply"})
    => /\ sorted = InStartOrder(edits)
       /\ (op = "apply" /\ Translatable(doc, edits, encoding)) =>
              (applied.kind = "Applied" /\ InInputOrder)

\* ------------------------------------------------------------------------
\* Registry: properties
\* ------------------------------------------------------------------------
\* the clients started: client n was started with issued[n].id
Clients == {n \in 1..Len(issued) : issued[n].started}

\* C9: every id is greater than every id issued before it, so no two
\* clients started, in the Registry or not, have one id, the id of an entry
\* of the Registry is the id its client was started with, and get_by_id
\* matches at most one entry.
C9_IdsIncrease ==
    /\ \A m, n \in 1..Len(issued) : m < n => issued[m].id < issued[n].id
    /\ \A n \in 1..Len(issued) : issued[n].id < counter
    /\ \A m, n \in Clients : m # n => issued[m].id # issued[n].id
    /\ \A s \in Scopes : inner[s] # None =>
          /\ unwrap(inner[s]).client \in Clients
          /\ issued[unwrap(inner[s]).client].id = unwrap(inner[s]).id
    /\ \A id \in 0..counter :
          /\ Cardinality({s \in Scopes : inner[s] # None /\ unwrap(inner[s]).id = id}) <= 1
          /\ Cardinality(get_by_id(inner, id)) <= 1

\* a restart started a third client after a start_client that failed, a
\* force_shutdown task was spawned, and two clients are in the Registry
C9_Witness ==
    /\ rop = "restart"
    /\ rret.kind = "Ok"
    /\ rret.value # None
    /\ Cardinality(Clients) = 3
    /\ Len(issued) = 4
    /\ shutdown # {}
    /\ \A s \in Scopes : (s # "text.plain") => inner[s] # None

\* the last call was get for a language with a language server whose scope
\* had an entry
GetOfOccupied ==
    /\ rop = "get"
    /\ unwrap(rarg.cfg).language_server
    /\ before.inner[unwrap(rarg.cfg).scope] # None

\* C10: get for a scope that has an entry returns the client of the entry
\* and leaves the entries, the counter and the merged stream as they were,
\* and starts no client; a get that follows a get for the same scope returns
\* the client that one returned.
C10_OneClientPerScope ==
    /\ GetOfOccupied =>
          /\ rret = Ok(Some(unwrap(before.inner[unwrap(rarg.cfg).scope]).client))
          /\ inner = before.inner
          /\ counter = before.counter
          /\ incoming = before.incoming
          /\ shutdown = before.shutdown
          /\ Len(issued) = before.issued
    /\ (rop = "get" /\ before.rop = "get" /\ before.rarg = rarg
            /\ before.rret.kind = "Ok" /\ before.rret.value # None)
        => /\ rret = before.rret
           /\ unwrap(inner[unwrap(rarg.cfg).scope]).client = unwrap(rret.value)
           /\ unwrap(inner[unwrap(rarg.cfg).scope]).id = issued[unwrap(rret.value)].id

\* a get follows the get that started a client for the scope, after ids
\* were issued for other clients
C10_Witness ==
    /\ GetOfOccupied
    /\ before.rop = "get"
    /\ before.rarg = rarg
    /\ before.issued = Len(issued)
    /\ before.rret = Ok(Some(Len(issued)))
    /\ Len(issued) >= 3
    /\ rret = before.rret

\* the last call was a restart that returned a client, the call before it a
\* get of the same configuration that returned the client old, and old was
\* the client started last
RestartAfterGet(old) ==
    /\ rop = "restart"
    /\ rret.kind = "Ok"
    /\ rret.value # None
    /\ before.rop = "get"
    /\ before.rarg = rarg
    /\ before.rret = Ok(Some(old))
    /\ before.issued = old

\* what holds right after such a restart: the client returned has the id of
\* old plus one and is the entry of the scope, no entry has the id of old,
\* and a force_shutdown task was spawned for old
RestartReplaced(old) ==
    LET new == unwrap(rret.value)
        scope == unwrap(rarg.cfg).scope
    IN  /\ new = old + 1
        /\ issued[new].started
        /\ issued[new].id = issued[old].id + 1
        /\ inner[scope] = Entry(issued[new].id, new)
        /\ get_by_id(inner, issued[old].id) = {}
        /\ get_by_id(inner, issued[new].id) = {new}
        /\ shutdown = before.shutdown \cup {old}
        /\ incoming = before.incoming \cup {new}

\* C11: a restart that follows the get that started a client with id k
\* returns a client with id k + 1, which is then the entry of the scope,
\* leaves no entry with id k, and force_shutdown is eventually invoked on
\* the old client.
C11_RestartReplacesId ==
    /\ [](\A old \in ClientHandles : RestartAfterGet(old) => RestartReplaced(old))
    /\ \A old \in ClientHandles : RestartAfterGet(old) ~> (old \in forced)

\* the restart of the second client started, and force_shutdown invoked on it
C11_Witness ==
    /\ RestartAfterGet(2)
    /\ RestartReplaced(2)
    /\ issued[3].id = 2
    /\ 2 \in forced

\* the last call was a restart for a language with a language server whose
\* scope had no entry
RestartOfVacant ==
    /\ rop = "restart"
    /\ unwrap(rarg.cfg).language_server
    /\ before.inner[unwrap(rarg.cfg).scope] = None

\* C12: a restart for a scope without entry returns Ok(None) and leaves
\* the entries, the counter, the merged stream and the tasks as they were,
\* and starts no client.
C12_RestartOnlyExisting ==
    RestartOfVacant =>
        /\ rret = Ok(None)
        /\ inner = before.inner
        /\ counter = before.counter
        /\ incoming = before.incoming
        /\ shutdown = before.shutdown
        /\ Len(issued) = before.issued

\* a restart for a scope that a stop emptied, while the other scope has a
\* client
C12_Witness ==
    /\ RestartOfVacant
    /\ before.rop = "stop"
    /\ before.rarg = rarg
    /\ shutdown # {}
    /\ \E s \in Scopes : inner[s] # None
    /\ rret = Ok(None)

\* the last call was a stop of a scope whose entry held the client old
StopRemoved(old) ==
    /\ rop = "stop"
    /\ before.inner[unwrap(rarg.cfg).scope] # None
    /\ unwrap(before.inner[unwrap(rarg.cfg).scope]).client = old

\* what holds right after a stop
StopEffect ==
    LET scope == unwrap(rarg.cfg).scope
        was == before.inner[scope]
    IN  /\ inner[scope] = None
        /\ \A s \in Scopes \ {scope} : inner[s] = before.inner[s]
        /\ counter = before.counter
        /\ incoming = before.incoming
        /\ Len(issued) = before.issued
        /\ IF was = None
           THEN inner = before.inner /\ shutdown = before.shutdown
           ELSE /\ get_by_id(inner, unwrap(was).id) = {}
                /\ shutdown = before.shutdown \cup {unwrap(was).client}

\* what holds right after a get that follows a stop of the same
\* configuration and returns a client: the client is a new one, and its id
\* is none of the ids issued before
GetAfterStop ==
    (rop = "get" /\ before.rop = "stop" /\ before.rarg = rarg
        /\ rret.kind = "Ok" /\ rret.value # None)
    => LET new == unwrap(rret.value)
       IN  /\ new = Len(issued)
           /\ new = before.issued + 1
           /\ \A n \in 1..before.issued : issued[n].id # issued[new].id
           /\ inner[unwrap(rarg.cfg).scope] = Entry(issued[new].id, new)

\* C13: after stop the scope has no entry, no entry has the id of the
\* client removed, the entries of the other scopes are as they were, and
\* force_shutdown is eventually invoked on the client removed; a stop of a
\* scope without entry changes nothing; a get that follows the stop starts a
\* new client with an id not issued before.
C13_StopRemoves ==
    /\ [](rop = "stop" => StopEffect)
    /\ []GetAfterStop
    /\ \A old \in ClientHandles : StopRemoved(old) ~> (old \in forced)

\* a get started a client after the stop of the client of its scope, and
\* force_shutdown was invoked on the client removed
C13_Witness ==
    /\ rop = "get"
    /\ before.rop = "stop"
    /\ before.rarg = rarg
    /\ rret = Ok(Some(2))
    /\ before.inner[unwrap(rarg.cfg).scope] = None
    /\ shutdown = {1}
    /\ forced = {1}
    /\ issued[2].id = 1

\* C14: every pair the merged stream has given holds the id the Registry
\* issued to the client whose transport sent it, and the pairs of one client
\* come in the order its transport sent them in, none left out.
C14_MergedStreamOrder ==
    /\ \A i \in 1..Len(delivered) :
          /\ delivered[i].from \in Clients
          /\ delivered[i].id = issued[delivered[i].from].id
          /\ \A n \in Clients : issued[n].id = delivered[i].id => n = delivered[i].from
    /\ \A i, j \in 1..Len(delivered) :
          (i < j /\ delivered[i].id = delivered[j].id)
              => delivered[i].call < delivered[j].call
    /\ \A i \in 1..Len(delivered) :
          \A j \in 1..Len(channel[delivered[i].from]) :
              delivered[i].call < channel[delivered[i].from][j].call

\* the calls of two clients given interleaved: the transport of the client
\* with id 0 sent calls 1 and 3, that of the client with id 1, which replaced
\* it, sent call 2, and the merged stream gave 2 between 1 and 3
C14_Witness ==
    /\ Len(delivered) = 3
    /\ delivered[1].call = 1 /\ delivered[1].id = 0
    /\ delivered[2].call = 2 /\ delivered[2].id = 1
    /\ delivered[3].call = 3 /\ delivered[3].id = 0
    /\ rop = "restart"
    /\ get_by_id(inner, 0) = {}

\* what a task that ran to its end has done
Handshake == <<"initialize", "capabilities", "initialized", "ready">>

\* the ready signal of the client was fired
Ready(client) == \E i \in 1..Len(events[client]) : events[client][i] = "ready"

\* C15: the ready signal is fired only after the capabilities were stored
\* and then the initialized notification was sent; a task whose initialize
\* failed has stored no capabilities, has sent no initialized notification,
\* has fired no ready signal, and does nothing more.
C15_HandshakeOrder ==
    /\ [](\A client \in ClientHandles :
            /\ events[client] = SubSeq(Handshake, 1, Len(events[client]))
            /\ Ready(client) => (events[client] = Handshake /\ capabilities[client] # None)
            /\ Len(events[client]) >= 2 <=> capabilities[client] # None
            /\ task[client] = "failed" =>
                  (capabilities[client] = None /\ events[client] = <<"initialize">>))
    /\ [][\A client \in ClientHandles :
            task[client] = "failed" =>
                /\ task'[client] = "failed"
                /\ capabilities'[client] = None
                /\ events'[client] = events[client]]_vars

\* one client is ready with the capabilities of its server, the initialize
\* of another failed
C15_Witness ==
    /\ task[1] = "ready"
    /\ events[1] = Handshake
    /\ capabilities[1] = Some("hover")
    /\ task[2] = "failed"
    /\ capabilities[2] = None
    /\ events[2] = <<"initialize">>

\* ------------------------------------------------------------------------
\* LspProgressMap: properties
\* ------------------------------------------------------------------------
\* the status the first n calls of the log leave for the token of the
\* server: that of the last create or update of it, if no end_progress of
\* it came after
RECURSIVE StatusAfter(_, _, _, _)
StatusAfter(log, n, id, token) ==
    IF n = 0 THEN None
    ELSE IF log[n].id # id \/ log[n].token # token THEN StatusAfter(log, n - 1, id, token)
    ELSE IF log[n].op = "create" THEN Some(Created)
    ELSE IF log[n].op = "update" THEN Some(Started(unwrap(log[n].status)))
    ELSE None

\* C16: progress gives the status of the last create or update made for
\* the server and the token after the last end_progress of them, and None
\* if there is none; is_created holds exactly when progress gives a status;
\* a call for another server or another token leaves what progress gives as
\* it was.
C16_ProgressLifecycle ==
    \A id \in ProgressIds, token \in ProgressTokens :
        /\ progress(pmap, id, token) = StatusAfter(plog, Len(plog), id, token)
        /\ is_created(pmap, id, token) <=> progress(pmap, id, token) # None
        /\ (plog # <<>> /\ (plog[Len(plog)].id # id \/ plog[Len(plog)].token # token))
              => progress(pmap, id, token) = progress(pbefore, id, token)

\* a token created, updated, ended and created again, while the other
\* token of the server is started
C16_Witness ==
    /\ Len(plog) = 4
    /\ plog[1].op = "update" /\ plog[1].token = <<"String", "1">> /\ plog[1].id = 1
    /\ plog[2].op = "update" /\ plog[2].token = <<"Number", "1">> /\ plog[2].id = 1
    /\ plog[3].op = "end_progress" /\ plog[3].token = <<"Number", "1">> /\ plog[3].id = 1
    /\ plog[4].op = "create" /\ plog[4].token = <<"Number", "1">> /\ plog[4].id = 1
    /\ progress(pmap, 1, <<"Number", "1">>) = Some(Created)
    /\ progress(pmap, 1, <<"String", "1">>) = Some(Started("Begin"))
    /\ progress(pmap, 0, <<"Number", "1">>) = None

\* the last call was end_progress
LastIsEnd == plog # <<>> /\ plog[Len(plog)].op = "end_progress"

\* C17: end_progress returns the status the token of the server had before
\* the call and leaves the token without status and every other token as it
\* was; where the token or the server had none it returns None and leaves
\* the map as it was; when no token of the server has a status left,
\* is_progressing of the server is false.
C17_EndProgress ==
    LastIsEnd =>
        LET id == plog[Len(plog)].id
            token == plog[Len(plog)].token
        IN  /\ pret = progress(pbefore, id, token)
            /\ pret = StatusAfter(plog, Len(plog) - 1, id, token)
            /\ progress(pmap, id, token) = None
            /\ \A i \in ProgressIds, t \in ProgressTokens :
                  (i # id \/ t # token) => progress(pmap, i, t) = progress(pbefore, i, t)
            /\ pret = None => pmap = pbefore
            /\ (\A t \in ProgressTokens : progress(pmap, id, t) = None)
                  => ~is_progressing(pmap, id)
            /\ is_progressing(pmap, id)
                  <=> \E t \in ProgressTokens : progress(pmap, id, t) # None

\* the last token of a server ended: end_progress returned what the update
\* had put
C17_Witness ==
    /\ LastIsEnd
    /\ Len(plog) = 3
    /\ plog[1].op = "create"
    /\ plog[2].op = "update"
    /\ plog[1].id = plog[3].id /\ plog[1].token = plog[3].token
    /\ plog[2].id = plog[3].id /\ plog[2].token = plog[3].token
    /\ pret = Some(Started("Report"))
    /\ is_progressing(pbefore, plog[3].id)
    /\ ~is_progressing(pmap, plog[3].id)
    /\ progress_map(pmap, plog[3].id) = Some(NoTokens)

\* ------------------------------------------------------------------------
\* Parse: properties
\* ------------------------------------------------------------------------
\* the variant and the params struct of each method a parse knows
KnownMethods(by) ==
    IF by = "MethodCall"
    THEN {<<"window/workDoneProgress/create", "WorkDoneProgressCreate",
            "WorkDoneProgressCreateParams">>,
          <<"workspace/applyEdit", "ApplyWorkspaceEdit", "ApplyWorkspaceEditParams">>,
          <<"workspace/workspaceFolders", "WorkspaceFolders", "">>,
          <<"workspace/configuration", "WorkspaceConfiguration", "ConfigurationParams">>}
    ELSE {<<"initialized", "Initialized", "">>,
          <<"exit", "Exit", "">>,
          <<"textDocument/publishDiagnostics", "PublishDiagnostics",
            "PublishDiagnosticsParams">>,
          <<"window/showMessage", "ShowMessage", "ShowMessageParams">>,
          <<"window/logMessage", "LogMessage", "LogMessageParams">>,
          <<"$/progress", "ProgressMessage", "ProgressParams">>}

\* the params deserialize as the struct
WellFormedParams(p, type) == p.kind = "Map" /\ RequiredFields(type) \subseteq p.fields

\* C18: a parse gives Unhandled for every method it does not know, the
\* variant of the method for a method it knows whose params are well
\* formed, and an error other than Unhandled for a method it knows whose
\* params are not; the methods without params give their variant whatever
\* the params are.
C18_ParseDispatch ==
    parser # "none" =>
        /\ Cardinality(KnownMethods("MethodCall")) = 4
        /\ Cardinality(KnownMethods("Notification")) = 6
        /\ (\A k \in KnownMethods(parser) : k[1] # method)
              => parsed = ParseErr("Unhandled")
        /\ \A k \in KnownMethods(parser) :
              k[1] = method =>
                  IF k[3] = "" THEN parsed = ParsedAs(k[2], None)
                  ELSE IF WellFormedParams(params, k[3])
                  THEN /\ parsed.kind = "Ok"
                       /\ parsed.variant = k[2]
                       /\ unwrap(parsed.params).type = k[3]
                       /\ unwrap(parsed.params).fields = RequiredFields(k[3])
                  ELSE parsed.kind = "Err" /\ parsed.error # "Unhandled"

\* a notification method handed to MethodCall::parse with well-formed
\* params
C18_Witness ==
    /\ parser = "MethodCall"
    /\ method = "$/progress"
    /\ params = ParamsMap({"token", "value"})
    /\ parsed = ParseErr("Unhandled")

\* ------------------------------------------------------------------------
\* C21: write-once capabilities
\* ------------------------------------------------------------------------
\* the callers of get_or_try_init on the cell of a client
Callers == {"task", "waiter"}

\* the callers get_or_try_init returned Ok to
Observers(client) == {caller \in Callers : got[client][caller].kind = "Ok"}

\* the callers whose initialize request was sent
Initializers(client) ==
    {initializers[client][n] : n \in 1..Len(initializers[client])}

\* one initializer runs at a time; the cell was filled by at most one of
\* them; whoever get_or_try_init returned Ok to was given what the cell holds;
\* when it returned Ok to both, one initialize request was sent; and the cell is
\* unset while no initializer has succeeded
Serialized(client) ==
    /\ ~(task[client] = "initialize" /\ waiter[client] = "initialize")
    /\ Cardinality(Initializers(client) \cap Observers(client)) <= 1
    /\ \A caller \in Observers(client) :
          /\ capabilities[client] # None
          /\ got[client][caller].value = capabilities[client]
    /\ Observers(client) = Callers => Len(initializers[client]) = 1
    /\ Observers(client) = {} => capabilities[client] = None

\* a step changes the cell of a client only from unset to set; it sends an
\* initialize request only when the cell is unset; and a get_or_try_init that
\* returns Err leaves the cell as it was
WriteOnce(client) ==
    /\ capabilities[client] # None => capabilities'[client] = capabilities[client]
    /\ initializers'[client] # initializers[client] => capabilities[client] = None
    /\ \A caller \in Callers :
          got[client][caller] # Err /\ got'[client][caller] = Err
              => capabilities'[client] = capabilities[client]

Overflows(d, pos, enc) ==
    /\ pos.line <= len_lines(d) - 1
    /\ checked_add(line_start_unit(d, pos.line, enc), pos.character) = None

\* C22: lsp_pos_to_pos returns None when adding the character of the position
\* to the start offset of its line overflows the machine word
C22_OverflowIsNone ==
    (op = "lsp_pos_to_pos" /\ Overflows(doc, arg, encoding)) => ret = None

\* ------------------------------------------------------------------------
\* C23: a snippet without tab stops
\* ------------------------------------------------------------------------
\* the text the snippet is rendered to for the i-th range
Replacement(i) ==
    snippet_change(doc, selection[i], start_offset, end_offset, snippet, <<"LF">>)
        .change.tendril[1]

\* the end of the text inserted for the i-th range, in the document the
\* transaction makes: the start of the range replaced, moved by what the
\* replacements before it added, and the length of the text
RECURSIVE EndOfReplacement(_)
EndOfReplacement(i) ==
    IF i = 1
    THEN Range_cursor(selection[1], doc) + start_offset + Len(Replacement(1))
    ELSE EndOfReplacement(i - 1)
         + (Range_cursor(selection[i], doc) + start_offset)
         - (Range_cursor(selection[i - 1], doc) + end_offset)
         + Len(Replacement(i))

NoTabStop == \A i \in 1..Len(snippet) : snippet[i] # "$1"

\* C23: when the rendered snippet has no tab stop, the selection of the
\* transaction has, for every range of the selection given, one range of
\* width zero at the end of the text inserted for that range
C23_NoTabStopAtEnd ==
    (op # "none" /\ selection # <<>> /\ txn.kind = "ChangeSet" /\ NoTabStop)
        => with_selection = [i \in 1..Len(selection) |->
                                Range_new(EndOfReplacement(i), EndOfReplacement(i))]

\* ------------------------------------------------------------------------
\* C24: the Registry after start_client failed
\* ------------------------------------------------------------------------
\* the last call was a get or a restart in which start_client failed
SpawnFailed == rop \in {"get", "restart"} /\ rret = Err

\* the ids of the attempts that failed
FailedIds == {issued[n].id : n \in {k \in 1..Len(issued) : ~issued[k].started}}

\* C24: when start_client fails inside get or restart the call returns the
\* error, the map is as it was (get has inserted nothing, restart has left the
\* old client in its place and spawned no shutdown of it), no stream was
\* pushed, and the id the attempt took from the counter is given to no other
\* attempt
C24_SpawnFailure ==
    /\ SpawnFailed =>
          /\ inner = before.inner
          /\ incoming = before.incoming
          /\ shutdown = before.shutdown
          /\ Len(issued) = before.issued + 1
          /\ issued[Len(issued)] = [id |-> before.counter, started |-> FALSE]
          /\ counter = before.counter + 1
          /\ rop = "get" => inner[unwrap(rarg.cfg).scope] = None
          /\ rop = "restart" => inner[unwrap(rarg.cfg).scope] # None
    /\ \A n, k \in 1..Len(issued) : (n # k /\ ~issued[n].started) => issued[k].id # issued[n].id
    /\ counter \notin FailedIds

\* a restart failed and left the client of the scope in place, after a get
\* that failed and clients started with later ids
C24_Witness ==
    /\ SpawnFailed
    /\ rop = "restart"
    /\ Len(issued) >= 4
    /\ ~issued[1].started
    /\ issued[2].started /\ issued[3].started
    /\ unwrap(inner[unwrap(rarg.cfg).scope]).client \notin shutdown

\* ------------------------------------------------------------------------
\* C25: what remove_by_id changes
\* ------------------------------------------------------------------------
\* the entries remove_by_id(id) deleted
RemovedById ==
    {s \in Scopes : before.inner[s] # None /\ unwrap(before.inner[s]).id = unwrap(rarg.id)}

\* C25: remove_by_id(id) deletes the entry whose id is id, none when there
\* is no such entry, and changes nothing else: every other entry, the counter
\* and the shutdown tasks are as before, and the removed client is in none of
\* them.  Neither remove_by_id nor stop nor restart takes a stream out of
\* incoming: the streams merged are those of the clients start_client made,
\* one more for each
C25_RemoveByIdFrame ==
    /\ rop = "remove_by_id" =>
          /\ \A s \in RemovedById : inner[s] = None
          /\ \A s \in Scopes \ RemovedById : inner[s] = before.inner[s]
          /\ Cardinality(RemovedById) <= 1
          /\ counter = before.counter
          /\ Len(issued) = before.issued
          /\ shutdown = before.shutdown
          /\ \A s \in RemovedById : unwrap(before.inner[s]).client \notin shutdown
          /\ incoming = before.incoming
    /\ rop \in {"stop", "restart", "remove_by_id"} => before.incoming \subseteq incoming
    /\ incoming = Clients

\* remove_by_id deleted the entry of one client and left that of another,
\* and the streams of both are in incoming
C25_Witness ==
    /\ rop = "remove_by_id"
    /\ RemovedById # {}
    /\ \E s \in Scopes \ RemovedById : inner[s] # None
    /\ \A s \in RemovedById : unwrap(before.inner[s]).client \in incoming
    /\ shutdown # {}

====
